---- MODULE Spec2Model ----
(***************************************************************************)
(* A model of the Fn invocation adapter (fdk.ts and express-wrapper.ts):   *)
(* one connection on the Unix socket, from the arrival of the request to   *)
(* the termination of the transport response.                              *)
(*                                                                         *)
(* Header names and header values are sequences of one-character strings   *)
(* so that canonicalisation, lower-casing, prefixing and substring tests   *)
(* are computed as the code computes them.  Body text is a TLA+ string.    *)
(*                                                                         *)
(* Node runs the adapter on one thread.  A macrotask (a transport event, a *)
(* stream event, a wake-up of user code) runs to completion, then every    *)
(* queued promise reaction (microtask) runs before the next macrotask.     *)
(* `micro' is the microtask queue and `task' says whether the middleware   *)
(* chain is in the middle of a macrotask.                                  *)
(***************************************************************************)
EXTENDS Integers, Sequences, FiniteSets, TLC

\* Bounds of the model.
MaxChunks == 2        \* body chunks delivered by the transport
MaxUserOps == 2       \* Context mutations made by a plain function handler
MaxHandlerOps == 3    \* calls the middleware chain makes on res / next
MaxNameLen == 3        \* characters of a header name given to the Context
MaxRawHeaders == 2    \* headers of a raw header list given to the Header Codec

----------------------------------------------------------------------------
\* Characters and character sequences

LowerLetters == <<"a","b","c","d","e","f","g","h","i","j","k","l","m",
                  "n","o","p","q","r","s","t","u","v","w","x","y","z">>
UpperLetters == <<"A","B","C","D","E","F","G","H","I","J","K","L","M",
                  "N","O","P","Q","R","S","T","U","V","W","X","Y","Z">>

\* String.prototype.toUpperCase / toLowerCase on one character
UpperChar(c) ==
  IF \E i \in 1..26 : LowerLetters[i] = c
    THEN UpperLetters[CHOOSE i \in 1..26 : LowerLetters[i] = c]
    ELSE c

LowerChar(c) ==
  IF \E i \in 1..26 : UpperLetters[i] = c
    THEN LowerLetters[CHOOSE i \in 1..26 : UpperLetters[i] = c]
    ELSE c

ToUpperCase(s) == [i \in 1..Len(s) |-> UpperChar(s[i])]
ToLowerCase(s) == [i \in 1..Len(s) |-> LowerChar(s[i])]

\* The text of a character sequence
RECURSIVE Text(_)
Text(s) == IF s = <<>> THEN "" ELSE Head(s) \o Text(Tail(s))

\* String.prototype.startsWith / includes
StartsWith(s, p) == Len(p) <= Len(s) /\ SubSeq(s, 1, Len(p)) = p
Includes(s, p) == \E i \in 1..(Len(s) - Len(p) + 1) : SubSeq(s, i, i + Len(p) - 1) = p

Digits == <<"0","1","2","3","4","5","6","7","8","9">>

\* Number.prototype.toString of a non-negative integer
RECURSIVE NumberToString(_)
NumberToString(n) ==
  IF n < 10 THEN <<Digits[n + 1]>>
  ELSE NumberToString(n \div 10) \o <<Digits[(n % 10) + 1]>>

\* h.replace(/_/g, '-')
ReplaceUnderscore(h) == [i \in 1..Len(h) |-> IF h[i] = "_" THEN "-" ELSE h[i]]

\* String.prototype.split('-')
RECURSIVE SplitDash(_)
SplitDash(h) ==
  IF \E i \in 1..Len(h) : h[i] = "-"
    THEN LET i == CHOOSE k \in 1..Len(h) :
                    h[k] = "-" /\ \A j \in 1..(k - 1) : h[j] # "-"
         IN <<SubSeq(h, 1, i - 1)>> \o SplitDash(SubSeq(h, i + 1, Len(h)))
    ELSE <<h>>

\* Array.prototype.join('-')
RECURSIVE JoinDash(_)
JoinDash(parts) ==
  IF Len(parts) = 0 THEN <<>>
  ELSE IF Len(parts) = 1 THEN parts[1]
  ELSE parts[1] \o <<"-">> \o JoinDash(Tail(parts))

\* part.charAt(0).toUpperCase() + part.slice(1).toLowerCase(), '' for ''
CanonPart(part) ==
  IF part = <<>> THEN <<>>
  ELSE <<UpperChar(part[1])>> \o ToLowerCase(Tail(part))

\* canonHeader without the replacement of '_' (a variant the unification
\* property must tell apart)
canonHeader_KeepsUnderscore(h) ==
  LET parts == SplitDash(h)
  IN JoinDash([i \in 1..Len(parts) |-> CanonPart(parts[i])])

\* canonHeader: h.replace(/_/g, '-').split('-').map(...).join('-')
canonHeader(h) ==
  LET parts == SplitDash(ReplaceUnderscore(h))
  IN JoinDash([i \in 1..Len(parts) |-> CanonPart(parts[i])])

----------------------------------------------------------------------------
\* Names and values the code spells out

ContentTypeName == <<"C","o","n","t","e","n","t","-","T","y","p","e">>
ContentLengthRemoved == <<"C","o","n","t","e","n","t","-","l","e","n","g","t","h">>
ContentLengthLower == <<"c","o","n","t","e","n","t","-","l","e","n","g","t","h">>
ContentTypeLower == <<"c","o","n","t","e","n","t","-","t","y","p","e">>
FnFdkVersionName == <<"F","n","-","F","d","k","-","V","e","r","s","i","o","n">>
FnFdkRuntimeName == <<"F","n","-","F","d","k","-","R","u","n","t","i","m","e">>
FnHttpStatusName == <<"F","n","-","H","t","t","p","-","S","t","a","t","u","s">>
FnHttpMethodName == <<"F","n","-","H","t","t","p","-","M","e","t","h","o","d">>
FnHttpRequestUrlName ==
  <<"F","n","-","H","t","t","p","-","R","e","q","u","e","s","t","-","U","r","l">>
FnHttpHPrefix == <<"F","n","-","H","t","t","p","-","H","-">>
ApplicationJson ==
  <<"a","p","p","l","i","c","a","t","i","o","n","/","j","s","o","n">>
PlusJson == <<"+","j","s","o","n">>
ApplicationJsonUtf8 ==
  ApplicationJson \o <<";"," ","c","h","a","r","s","e","t","=","u","t","f","-","8">>
ApplicationOctetStream ==
  <<"a","p","p","l","i","c","a","t","i","o","n","/",
    "o","c","t","e","t","-","s","t","r","e","a","m">>
TextPlain == <<"t","e","x","t","/","p","l","a","i","n">>
\* an ordinary header name
XFoo == <<"X","-","F","o","o">>
\* fdkVersion and runtimeTag are built from package.json and process.version;
\* the model keeps one representative value of each
fdkVersion == <<"f","d","k","-","n","o","d","e","/","0">>
runtimeTag == <<"n","o","d","e","/","1","8">>

fnFunctionExceptionMessage == "Exception in function, consult logs for details"
fnFunctionBadRequestErrorMessage == "Bad request"

\* A map with no entry
EmptyMap == <<>>

\* obj[key] = value
MapSet(m, k, v) == [x \in (DOMAIN m) \cup {k} |-> IF x = k THEN v ELSE m[x]]

\* delete obj[key]
MapRemove(m, k) == [x \in (DOMAIN m) \ {k} |-> m[x]]

----------------------------------------------------------------------------
\* Values: what user code returns, what JSON text denotes

\* null and undefined (result != null is false for both)
JNull == [tag |-> "null", s |-> "", kv |-> <<>>]
JStr(s) == [tag |-> "str", s |-> s, kv |-> <<>>]
\* a number, kept as its decimal text
JNum(s) == [tag |-> "num", s |-> s, kv |-> <<>>]
\* an object: its members in insertion order, each <<key, value>>
JObj(kv) == [tag |-> "obj", s |-> "", kv |-> kv]
\* a Buffer holding the bytes of text s
Buf(s) == [tag |-> "buf", s |-> s, kv |-> <<>>]
\* a structure that refers to itself
Cyclic == [tag |-> "cyclic", s |-> "", kv |-> <<>>]
\* new RawResult(data), new StreamResult(stream)
RawResultOf(s) == [tag |-> "raw", s |-> s, kv |-> <<>>]
StreamResultOf(s) == [tag |-> "stream", s |-> s, kv |-> <<>>]

\* result instanceof FnResult
IsFnResult(v) == v.tag \in {"raw", "stream"}

\* Buffer.prototype.toJSON().data as JSON text, for the buffers of the model
BufferData(s) == CASE s = "" -> "[]"
                   [] s = "hi" -> "[104,105]"

\* JSON.stringify throws on a circular structure
StringifyThrows(v) == v.tag = "cyclic"

\* JSON.stringify of a value it accepts
RECURSIVE Stringify(_), StringifyMembers(_)
Stringify(v) ==
  CASE v.tag = "null" -> "null"
    [] v.tag = "str" -> "\"" \o v.s \o "\""
    [] v.tag = "num" -> v.s
    [] v.tag = "obj" -> "{" \o StringifyMembers(v.kv) \o "}"
    [] v.tag = "buf" -> "{\"type\":\"Buffer\",\"data\":" \o BufferData(v.s) \o "}"

StringifyMembers(kv) ==
  IF kv = <<>> THEN ""
  ELSE "\"" \o kv[1][1] \o "\":" \o Stringify(kv[1][2])
       \o (IF Len(kv) > 1 THEN "," \o StringifyMembers(Tail(kv)) ELSE "")

\* An exception: Error objects carry a name and a message; a thrown string is
\* the record with an empty name.  NoErr stands for "nothing was thrown".
NoErr == [name |-> "", message |-> ""]
ErrorOf(m) == [name |-> "Error", message |-> m]
HeadersSentError ==
  [name |-> "Error [ERR_HTTP_HEADERS_SENT]",
   message |-> "Cannot set headers after they are sent to the client"]
InvalidTokenError ==
  [name |-> "TypeError [ERR_INVALID_HTTP_TOKEN]",
   message |-> "Header name must be a valid HTTP token"]
CircularError ==
  [name |-> "TypeError", message |-> "Converting circular structure to JSON"]
JsonSyntaxError == [name |-> "SyntaxError", message |-> "Unexpected token"]
UndefinedHeadersError ==
  [name |-> "TypeError", message |-> "Cannot read properties of undefined"]
NotAFunctionError == [name |-> "TypeError", message |-> "res.status is not a function"]

\* error.toString()
ErrorToString(e) ==
  IF e.name = "" THEN e.message
  ELSE IF e.message = "" THEN e.name
  ELSE e.name \o ": " \o e.message

\* JSON.stringify(error) of the envelope { message, detail }
ErrorEnvelope(message, detail) ==
  Stringify(JObj(<< <<"message", JStr(message)>>, <<"detail", JStr(detail)>> >>))

----------------------------------------------------------------------------
\* http.ServerResponse, the transport response

\* status 0: the status line is not committed yet
\* headers is keyed by the lower-cased name; spelled keeps the name as it
\* was given to setHeader, which is how it goes on the wire
NewResp == [headers |-> EmptyMap, spelled |-> EmptyMap, status |-> 0,
            reason |-> "", body |-> <<>>, endCalls |-> 0]

\* the three shapes of a request body; a text is kept as the sequence of its
\* characters (a run of ASCII characters counts as one)
BodyBuffer(bytes) == [kind |-> "buffer", bytes |-> bytes, text |-> <<>>, value |-> JNull]
BodyText(text) == [kind |-> "string", bytes |-> <<>>, text |-> text, value |-> JNull]
BodyValue(v) == [kind |-> "json", bytes |-> <<>>, text |-> <<>>, value |-> v]

\* The state an operation of the adapter works on: the transport response,
\* the Context's response intent, the log, and the exception in flight.
\* order: the names of responseHeaders in the order they were first assigned,
\* the order in which for...in visits them
NewCtx(headers, body) ==
  [headers |-> headers, body |-> body,
   responseHeaders |-> EmptyMap, order |-> <<>>, responseContentType |-> <<>>]

\* pend: what sendResult left pending ("then": p resolved, resp.end() queued;
\* "stream": a source stream is piped into the response)
\* sends: how many times a writer of the transport response (sendResult,
\* sendJSONError) was entered
World(r, c, l, n) ==
  [resp |-> r, ctx |-> c, log |-> l, err |-> NoErr, pend |-> "none", sends |-> n]

Threw(w) == w.err # NoErr
Throw(w, e) == [w EXCEPT !.err = e]
Log(w, line) == IF Threw(w) THEN w ELSE [w EXCEPT !.log = @ \cup {line}]

\* a header name the transport accepts: not empty, no space
IsToken(name) == name # <<>> /\ \A i \in 1..Len(name) : name[i] # " "

\* resp.setHeader(name, value): refused once the status line is committed,
\* and for a name that is not a token
RespSetHeader(w, name, values) ==
  IF Threw(w) THEN w
  ELSE IF w.resp.status # 0 THEN Throw(w, HeadersSentError)
  ELSE IF ~IsToken(name) THEN Throw(w, InvalidTokenError)
  ELSE [w EXCEPT !.resp.headers = MapSet(@, ToLowerCase(name), values),
                 !.resp.spelled = MapSet(@, ToLowerCase(name), name)]

\* resp.removeHeader(name)
RespRemoveHeader(w, name) ==
  IF Threw(w) THEN w
  ELSE IF w.resp.status # 0 THEN Throw(w, HeadersSentError)
  ELSE [w EXCEPT !.resp.headers = MapRemove(@, ToLowerCase(name)),
                 !.resp.spelled = MapRemove(@, ToLowerCase(name))]

\* resp.writeHead(code, reason)
RespWriteHead(w, code, reason) ==
  IF Threw(w) THEN w
  ELSE IF w.resp.status # 0 THEN Throw(w, HeadersSentError)
  ELSE [w EXCEPT !.resp.status = code, !.resp.reason = reason]

\* resp.write(chunk): after end() the chunk is dropped (the error is emitted
\* on the response, not thrown)
RespWriteBytes(r, chunk) ==
  IF r.endCalls > 0 THEN r ELSE [r EXCEPT !.body = Append(@, chunk)]

RespWrite(w, chunk) ==
  IF Threw(w) THEN w ELSE [w EXCEPT !.resp = RespWriteBytes(@, chunk)]

\* resp.end(): the first call finishes the response, a later call only counts
RespEndCall(r) == [r EXCEPT !.endCalls = @ + 1]

RespEnd(w) == IF Threw(w) THEN w ELSE [w EXCEPT !.resp = RespEndCall(@)]

\* resp.end(chunk)
RespEndWith(w, chunk) == RespEnd(RespWrite(w, chunk))

\* a catch block took the exception
Caught(w) == [w EXCEPT !.err = NoErr]
Pending(w, kind) == IF Threw(w) THEN w ELSE [w EXCEPT !.pend = kind]
Entered(w) == IF Threw(w) THEN w ELSE [w EXCEPT !.sends = @ + 1]

----------------------------------------------------------------------------
\* Header Codec and Context

skipHeaders == { <<"T","E">>,
                 <<"C","o","n","n","e","c","t","i","o","n">>,
                 <<"K","e","e","p","-","A","l","i","v","e">>,
                 <<"T","r","a","n","s","f","e","r","-","E","n","c","o","d","i","n","g">>,
                 <<"T","r","a","i","l","e","r">>,
                 <<"U","p","g","r","a","d","e">> }

\* rawHeaders is the flat list name, value, name, value, ...
RECURSIVE processHeadersFrom(_, _, _)
processHeadersFrom(rawHeaders, i, headers) ==
  IF i > Len(rawHeaders) THEN headers
  ELSE LET key == canonHeader(rawHeaders[i])
           value == rawHeaders[i + 1]
       IN IF key \in skipHeaders
            THEN processHeadersFrom(rawHeaders, i + 2, headers)
            ELSE IF key \notin DOMAIN headers
              THEN processHeadersFrom(rawHeaders, i + 2, MapSet(headers, key, <<value>>))
              ELSE processHeadersFrom(rawHeaders, i + 2,
                                      MapSet(headers, key, Append(headers[key], value)))

\* processHeaders keeping the first value of a name only (a variant the
\* all-values property must tell apart)
processHeaders_FirstValueOnly(rawHeaders) ==
  LET h == processHeadersFrom(rawHeaders, 1, EmptyMap)
  IN [k \in DOMAIN h |-> <<h[k][1]>>]

processHeaders(rawHeaders) == processHeadersFrom(rawHeaders, 1, EmptyMap)

\* Context.getHeader(key) || '' : the first value, '' when the header is absent
getHeaderOrEmpty(c, key) ==
  LET k == canonHeader(key)
  IN IF k \in DOMAIN c.headers /\ c.headers[k] # <<>> THEN c.headers[k][1] ELSE <<>>

\* a property assigned for the first time goes last in the enumeration order
Inserted(c, key) ==
  IF key \in DOMAIN c.responseHeaders THEN c.order ELSE Append(c.order, key)

\* the values pushed after the existing ones instead of replacing them (a
\* variant the replace property must tell apart)
setResponseHeader_Appends(w, key, values) ==
  IF Threw(w) THEN w
  ELSE LET ckey == canonHeader(key)
           old == IF ckey \in DOMAIN w.ctx.responseHeaders
                    THEN w.ctx.responseHeaders[ckey] ELSE <<>>
       IN [w EXCEPT !.ctx.responseHeaders = MapSet(@, ckey, old \o values),
                    !.ctx.order = Inserted(w.ctx, ckey)]

\* setResponseHeader that also puts the header on the transport response,
\* committed or not (a variant the frame property must tell apart)
setResponseHeader_WritesThrough(w, key, values) ==
  IF Threw(w) THEN w
  ELSE [w EXCEPT !.ctx.responseHeaders = MapSet(@, canonHeader(key), values),
                 !.ctx.order = Inserted(w.ctx, canonHeader(key)),
                 !.resp.headers = MapSet(@, ToLowerCase(canonHeader(key)), values),
                 !.resp.spelled = MapSet(@, ToLowerCase(canonHeader(key)),
                                         canonHeader(key))]

\* Context.setResponseHeader(key, ...values)
setResponseHeader(w, key, values) ==
  IF Threw(w) THEN w
  ELSE [w EXCEPT !.ctx.responseHeaders = MapSet(@, canonHeader(key), values),
                 !.ctx.order = Inserted(w.ctx, canonHeader(key))]

\* addResponseHeader with the new values in place of the old ones (a variant
\* the append property must tell apart)
addResponseHeader_Replaces(w, key, values) ==
  IF Threw(w) THEN w
  ELSE [w EXCEPT !.ctx.responseHeaders = MapSet(@, canonHeader(key), values),
                 !.ctx.order = Inserted(w.ctx, canonHeader(key))]

\* Context.addResponseHeader(key, ...values)
addResponseHeader(w, key, values) ==
  IF Threw(w) THEN w
  ELSE LET ckey == canonHeader(key)
           old == IF ckey \in DOMAIN w.ctx.responseHeaders
                    THEN w.ctx.responseHeaders[ckey] ELSE <<>>
       IN [w EXCEPT !.ctx.responseHeaders = MapSet(@, ckey, old \o values),
                    !.ctx.order = Inserted(w.ctx, ckey)]

\* what a getter returns: a value, or null
NoValue == [some |-> FALSE, value |-> <<>>]
Some(v) == [some |-> TRUE, value |-> v]
FirstOf(map, key) ==
  IF key \in DOMAIN map /\ map[key] # <<>> THEN Some(map[key][1]) ELSE NoValue

\* Context.getHeader(key)
getHeader(c, key) == FirstOf(c.headers, canonHeader(key))

\* A list handed to user code: of is the name under which the very same list
\* is stored in the Request Envelope's header map, <<>> for a list of its own

\* Context.getAllHeaderValues(key): a copy of the stored list ([...v])
getAllHeaderValues(c, key) ==
  [of |-> <<>>, list |-> getHeaderOrEmpty(c, canonHeader(key))]

\* the list the Gateway View's enumeration holds under headerName: the
\* stored list itself (headers[headerName] = this.ctx.headers[key])
gatewayHeaderList(c, headerName) ==
  [of |-> FnHttpHPrefix \o headerName, list |-> c.headers[FnHttpHPrefix \o headerName]]

\* list.unshift(v) by user code on a list it was handed
ListUnshift(c, handed, v) ==
  IF handed.of = <<>> THEN c ELSE [c EXCEPT !.headers[handed.of] = <<v>> \o @]

\* Context.getResponseHeader(key)
getResponseHeader(c, key) == FirstOf(c.responseHeaders, canonHeader(key))

\* the enumeration without the length test (a variant the bare-prefix
\* property must tell apart)
gatewayHeaders_WithBarePrefix(c) ==
  LET keys == { k \in DOMAIN c.headers : StartsWith(k, FnHttpHPrefix) }
  IN [n \in { SubSeq(k, Len(FnHttpHPrefix) + 1, Len(k)) : k \in keys } |->
        c.headers[FnHttpHPrefix \o n]]

\* HTTPGatewayContext.headers
gatewayHeaders(c) ==
  LET keys == { k \in DOMAIN c.headers :
                  StartsWith(k, FnHttpHPrefix) /\ Len(k) > Len(FnHttpHPrefix) }
  IN [n \in { SubSeq(k, Len(FnHttpHPrefix) + 1, Len(k)) : k \in keys } |->
        c.headers[FnHttpHPrefix \o n]]

\* ctx.responseContentType = value
setResponseContentType(w, value) ==
  IF Threw(w) THEN w ELSE [w EXCEPT !.ctx.responseContentType = value]

\* HTTPGatewayContext.setResponseHeader(key, ...values)
gatewaySetResponseHeader(w, key, values) ==
  IF canonHeader(key) = ContentTypeName
    THEN setResponseContentType(w, values[1])
    ELSE setResponseHeader(w, FnHttpHPrefix \o key, values)

\* HTTPGatewayContext.addResponseHeader(key, ...values)
gatewayAddResponseHeader(w, key, values) ==
  addResponseHeader(w, FnHttpHPrefix \o key, values)

\* HTTPGatewayContext: set statusCode(status)
gatewayStatusCode(w, status) ==
  setResponseHeader(w, FnHttpStatusName, <<NumberToString(status)>>)

\* HTTPGatewayContext.requestURL and .method
gatewayRequestURL(c) == getHeaderOrEmpty(c, FnHttpRequestUrlName)
gatewayMethod(c) == getHeaderOrEmpty(c, FnHttpMethodName)

----------------------------------------------------------------------------
\* Result Encoder

\* for (const key in ctx.responseHeaders) resp.setHeader(key, ...)
RECURSIVE SetHeadersFrom(_, _)
SetHeadersFrom(w, keys) ==
  IF keys = <<>> THEN w
  ELSE SetHeadersFrom(RespSetHeader(w, Head(keys), w.ctx.responseHeaders[Head(keys)]),
                      Tail(keys))

\* equality for startsWith and endsWith for includes (a variant the marking
\* property must tell apart)
MarksJson_Exact(ct, result) ==
  \/ (ct = <<>> /\ result # JNull)
  \/ (ct # <<>> /\ (ct = ApplicationJson
                     \/ (Len(ct) >= Len(PlusJson)
                         /\ SubSeq(ct, Len(ct) - Len(PlusJson) + 1, Len(ct)) = PlusJson)))

\* the default to JSON left out (a variant the inference property must tell
\* apart)
MarksJson_ExplicitOnly(ct, result) ==
  ct # <<>> /\ (StartsWith(ct, ApplicationJson) \/ Includes(ct, PlusJson))

\* the content-type decides JSON encoding (sendResult, first block)
MarksJson(ct, result) ==
  \/ (ct = <<>> /\ result # JNull)
  \/ (ct # <<>> /\ (StartsWith(ct, ApplicationJson) \/ Includes(ct, PlusJson)))

\* the status line committed with the gateway status of the Response Intent
\* when there is one (a variant the transport-status property must tell apart)
StampAndCommit_GatewayStatus(w) ==
  LET stamped == RespSetHeader(
                   RespSetHeader(RespRemoveHeader(w, ContentLengthRemoved),
                                 FnFdkVersionName, <<fdkVersion>>),
                   FnFdkRuntimeName, <<runtimeTag>>)
      codes == { n \in {201, 404} :
                   /\ FnHttpStatusName \in DOMAIN w.ctx.responseHeaders
                   /\ w.ctx.responseHeaders[FnHttpStatusName] = <<NumberToString(n)>> }
  IN RespWriteHead(stamped, IF codes = {} THEN 200 ELSE CHOOSE n \in codes : TRUE, "OK")

\* removeHeader, the two identification headers, writeHead(200, 'OK')
StampAndCommit(w) ==
  RespWriteHead(
    RespSetHeader(
      RespSetHeader(RespRemoveHeader(w, ContentLengthRemoved),
                    FnFdkVersionName, <<fdkVersion>>),
      FnFdkRuntimeName, <<runtimeTag>>),
    200, "OK")

\* RawResult.writeResult writes its data at once (p resolves);
\* StreamResult.writeResult pipes its stream and p stays pending until the
\* stream ends or fails
writeResult(w, result) ==
  IF result.tag = "raw" THEN Pending(RespWrite(w, result.s), "then")
  ELSE Pending(w, "stream")

\* the JSON test made before the test for a result wrapper, so that a wrapper
\* is serialized as the object it is (a variant the encode-by-tag property
\* must tell apart)
EncodeBody_JsonFirst(w, result, isJSON) ==
  IF Threw(w) THEN w
  ELSE IF result = JNull THEN RespEnd(w)
  ELSE IF isJSON
    THEN IF StringifyThrows(result) THEN Throw(w, CircularError)
         ELSE IF IsFnResult(result)
           THEN Pending(RespWrite(w, Stringify(JObj(<< <<"data", JStr(result.s)>> >>))),
                        "then")
           ELSE Pending(RespWrite(w, Stringify(result)), "then")
  ELSE IF IsFnResult(result) THEN writeResult(w, result)
  ELSE IF result.tag \in {"str", "buf"} THEN Pending(RespWrite(w, result.s), "then")
  ELSE RespEnd(w)

\* every value that is not a wrapper, a string or a buffer serialized, marked
\* as JSON or not (a variant the empty-body property must tell apart)
EncodeBody_StringifiesRest(w, result, isJSON) ==
  IF Threw(w) THEN w
  ELSE IF result = JNull THEN RespEnd(w)
  ELSE IF IsFnResult(result) THEN writeResult(w, result)
  ELSE IF ~isJSON /\ result.tag \in {"str", "buf"}
    THEN Pending(RespWrite(w, result.s), "then")
  ELSE IF StringifyThrows(result) THEN Throw(w, CircularError)
  ELSE Pending(RespWrite(w, Stringify(result)), "then")

\* the body by the kind of result; p is left pending or resp.end() is called
EncodeBody(w, result, isJSON) ==
  IF Threw(w) THEN w
  ELSE IF result = JNull THEN RespEnd(w)
  ELSE IF IsFnResult(result) THEN writeResult(w, result)
  ELSE IF isJSON
    THEN IF StringifyThrows(result) THEN Throw(w, CircularError)
         ELSE Pending(RespWrite(w, Stringify(result)), "then")
  ELSE IF result.tag \in {"str", "buf"} THEN Pending(RespWrite(w, result.s), "then")
  ELSE RespEnd(w)

sendResult(w, result) ==
  LET ct == w.ctx.responseContentType
      w1 == IF ct = <<>> /\ result # JNull
              THEN setResponseContentType(Entered(w), ApplicationJson) ELSE Entered(w)
      w2 == SetHeadersFrom(w1, w1.ctx.order)
  IN EncodeBody(StampAndCommit(w2), result, MarksJson(ct, result))

sendJSONError(w, code, message, detail) ==
  RespEndWith(
    RespWriteHead(
      RespSetHeader(Log(Entered(w), "Error " \o Text(NumberToString(code))),
                    ContentTypeName, <<ApplicationJson>>),
      code, "Internal Error"),
    ErrorEnvelope(message, detail))

\* handleFunctionError with the status of a middleware failure (a variant
\* the 502 property must tell apart)
handleFunctionError_Status500(w, error) ==
  sendJSONError(Log(w, "Function error"), 500,
                fnFunctionExceptionMessage, ErrorToString(error))

handleFunctionError(w, error) ==
  sendJSONError(Log(w, "Function error"), 502,
                fnFunctionExceptionMessage, ErrorToString(error))

\* handleExpressError with the status of a function failure (a variant the
\* 500 property must tell apart)
handleExpressError_Status502(w, error) ==
  sendJSONError(Log(w, "Express error"), 502,
                "Internal Server Error", ErrorToString(error))

handleExpressError(w, error) ==
  sendJSONError(Log(w, "Express error"), 500,
                "Internal Server Error", ErrorToString(error))

----------------------------------------------------------------------------
\* Middleware Shim

\* url.parse(requestURL).pathname of a path-and-query URL: the text before
\* the first '?' or '#'
Pathname(u) ==
  IF \E i \in 1..Len(u) : u[i] \in {"?", "#"}
    THEN SubSeq(u, 1, (CHOOSE k \in 1..Len(u) :
                         u[k] \in {"?", "#"} /\ \A j \in 1..(k - 1) : u[j] \notin {"?", "#"}) - 1)
    ELSE u

OrElse(v, d) == IF v = <<>> THEN d ELSE v

\* createExpressRequest: method, path and headers of the synthetic request,
\* and what was pushed on the readable: req.push(body); req.push(null)
createExpressRequest(c, body) ==
  [method |-> OrElse(gatewayMethod(c), <<"G","E","T">>),
   path |-> OrElse(Pathname(OrElse(gatewayRequestURL(c), <<"/">>)), <<"/">>),
   headers |-> c.headers,
   pushed |-> <<body>>, ended |-> TRUE]

\* createExpressResponse: the synthetic response.  statusCode is the property
\* Express's res.status() assigns; the shim itself never reads it.
createExpressResponse ==
  [_status |-> 200, _headers |-> EmptyMap, _body |-> <<>>, _finished |-> FALSE,
   statusCode |-> 0]

\* Buffer.concat(chunks).toString()
RECURSIVE ConcatText(_)
ConcatText(chunks) ==
  IF chunks = <<>> THEN "" ELSE Head(chunks) \o ConcatText(Tail(chunks))

resSetHeader(res, key, value) ==
  [res EXCEPT !._headers = MapSet(@, ToLowerCase(key), value)]
resWriteHead(res, status) == [res EXCEPT !._status = status]
resWrite(res, chunk) == [res EXCEPT !._body = Append(@, chunk)]
\* end(chunk): if (chunk) write(chunk); _finished = true
resEnd(res, chunk) ==
  [(IF chunk # "" THEN resWrite(res, chunk) ELSE res) EXCEPT !._finished = TRUE]

\* the value end() passes to _resolve; headers is the live _headers object of
\* the synthetic response, status and body are taken at the call
ExpressResponseOf(res) ==
  [status |-> res._status, body |-> Buf(ConcatText(res._body)), hasHeaders |-> TRUE]

\* the synthetic response itself, read as an ExpressResponse: it has no
\* status number, no headers and no body property
ShimReadAsResult == [status |-> 0, body |-> JNull, hasHeaders |-> FALSE]

\* the body of the synthesized 404
NotFoundBody(req) ==
  JObj(<< <<"error", JStr("Not Found")>>,
          <<"message", JStr("Route " \o Text(req.method) \o " "
                            \o Text(req.path) \o " not found")>> >>)

\* typeof v === 'object'
TypeofObject(v) == v.tag \in {"null", "obj", "buf", "cyclic", "raw", "stream"}

----------------------------------------------------------------------------
\* The inputs of the model

Methods == {"POST", "GET"}
Urls == {"/call", "/other"}
\* the gateway's request as sub-protocol headers, in the casing of the wire:
\* method PUT, URL /hi?x, Content-Type text/plain
RawHeaderLists ==
  { <<>>,
    << ToLowerCase(FnHttpMethodName), <<"P","U","T">>,
       ToUpperCase(FnHttpRequestUrlName), <<"/","h","i","?","x">>,
       ToLowerCase(FnHttpHPrefix \o ContentTypeName), TextPlain >> }
\* a chunk is a sequence of bytes; a run of ASCII bytes is written as its text
ChunkValues == { <<"a">> }
\* handle(fn) and handle(express(), {framework: "express"})
NoOptions == [framework |-> "", inputMode |-> ""]
HandleArgs ==
  { [handler |-> "function", options |-> NoOptions],
    [handler |-> "application", options |-> [NoOptions EXCEPT !.framework = "express"]] }
Errors == {ErrorOf("boom"), [name |-> "", message |-> "oops"]}
\* what a plain function handler returns
ResultValues ==
  { JNull, JStr("plain"), Buf("hi"), JObj(<< <<"x", JNum("1")>> >>), Cyclic,
    RawResultOf("raw"), StreamResultOf("data") }
\* what a plain function handler sets on the Context
\* (the last two: a/b+json and a/b+json;q)
UserContentTypes ==
  { TextPlain, ApplicationJson, ApplicationJsonUtf8,
    <<"a","/","b","+","j","s","o","n">>,
    <<"a","/","b","+","j","s","o","n",";","q">> }
\* what a plain function handler sets through the Gateway View: X-Foo or
\* x_foo to bar or to baz, qux; content-type to text/plain
GatewaySets ==
  { <<k, vs>> : k \in {XFoo, <<"x","_","f","o","o">>},
                vs \in { << <<"b","a","r">> >>, << <<"b","a","z">>, <<"q","u","x">> >> } }
  \cup { <<ContentTypeLower, <<TextPlain>> >> }
GatewayAdds == { <<XFoo, << <<"b","a","r">> >> >>, <<ContentTypeName, <<TextPlain>> >> }
\* what a middleware chain does to the synthetic response
HandlerHeaders == { <<ContentTypeName, ApplicationJson>> }
HandlerStatuses == {201}
HandlerWrites == {"{\"a\""}
HandlerEnds == {"", ":1}", "hello"}

\* JSON.parse: the text of a value denotes that value, any other text is
\* malformed.  The values whose text the model can produce:
RequestShapes ==
  { createExpressRequest(NewCtx(processHeaders(h), BodyText(<<>>)), <<>>) : h \in RawHeaderLists }
JsonUniverse ==
  { JNull, JNum("1"), JStr("plain"),
    JObj(<< <<"a", JNum("1")>> >>), JObj(<< <<"x", JNum("1")>> >>) }
  \cup { NotFoundBody(r) : r \in RequestShapes }

JSONParseThrows(text) == ~ \E v \in JsonUniverse : Stringify(v) = text
JSONParse(text) == CHOOSE v \in JsonUniverse : Stringify(v) = text

----------------------------------------------------------------------------
\* handle() and the Input Accumulators

\* handler instanceof Router || 'listen' in handler
isExpressApp(handler) == handler = "application"

\* handle: the options handed to handleHTTPStream
handle(handler, options) ==
  IF isExpressApp(handler)
    THEN [options EXCEPT !.framework = "express", !.inputMode = "buffer"]
    ELSE options

\* handleHTTPStream: const inputMode = options.inputMode || 'json'
InputModeOf(options) == IF options.inputMode = "" THEN "json" ELSE options.inputMode

\* handleHTTPStream: const framework = options.framework, as the end
\* listener tests it
FrameworkOf(options) == IF options.framework = "express" THEN "express" ELSE "function"

\* getInputHandler: the class instantiated for a mode
getInputHandler(mode) ==
  CASE mode = "buffer" -> "BufferInputHandler"
    [] mode = "string" -> "StringInputHandler"
    [] mode = "json" -> "JSONInputHandler"

\* the two bytes of a two-byte UTF-8 character, and what Buffer.toString()
\* makes of them: the character when they are adjacent, U+FFFD for each byte
\* that stands alone
LeadByte == "<C3>"
ContinuationByte == "<A9>"
ReplacementChar == "[U+FFFD]"
EAcute == "[e-acute]"
RECURSIVE BufferToString(_)
BufferToString(bytes) ==
  IF bytes = <<>> THEN <<>>
  ELSE IF Head(bytes) = LeadByte
    THEN IF Len(bytes) > 1 /\ bytes[2] = ContinuationByte
           THEN <<EAcute>> \o BufferToString(Tail(Tail(bytes)))
           ELSE <<ReplacementChar>> \o BufferToString(Tail(bytes))
  ELSE IF Head(bytes) = ContinuationByte
    THEN <<ReplacementChar>> \o BufferToString(Tail(bytes))
  ELSE <<Head(bytes)>> \o BufferToString(Tail(bytes))

\* Buffer.concat
RECURSIVE BufferConcat(_)
BufferConcat(buffers) ==
  IF buffers = <<>> THEN <<>> ELSE Head(buffers) \o BufferConcat(Tail(buffers))

\* pushData: this.buffers.push(Buffer.from(data)), this.str += data.toString().
\* The accumulator is kept as the list of what was pushed.
pushData(handler, acc, data) ==
  IF handler = "BufferInputHandler" THEN Append(acc, data)
  ELSE Append(acc, BufferToString(data))

\* the three bytes of U+FFFD in UTF-8
ReplacementBytes == <<"<EF>", "<BF>", "<BD>">>

\* Buffer.from(text): the UTF-8 bytes of each character
RECURSIVE BufferFrom(_)
BufferFrom(text) ==
  IF text = <<>> THEN <<>>
  ELSE (CASE Head(text) = EAcute -> <<LeadByte, ContinuationByte>>
          [] Head(text) = ReplacementChar -> ReplacementBytes
          [] OTHER -> <<Head(text)>>) \o BufferFrom(Tail(text))

\* String(ctx.body || '') for a body that is not a Buffer: a text is itself,
\* null is falsy, a number or a string value is its text, an object is
\* "[object Object]"
StringOfBody(body) ==
  CASE body.kind = "string" -> body.text
    [] body.kind = "json" /\ body.value.tag = "null" -> <<>>
    [] body.kind = "json" /\ body.value.tag \in {"str", "num"} ->
         IF body.value.s = "" THEN <<>> ELSE <<body.value.s>>
    [] OTHER -> <<"[object Object]">>

\* handleExpressRequest: the body given to the synthetic request,
\* ctx.body instanceof Buffer ? ctx.body : Buffer.from(String(ctx.body || ''))
ShimBody(body) ==
  IF body.kind = "buffer" THEN body.bytes ELSE BufferFrom(StringOfBody(body))

\* this.str of a text accumulator: the texts pushed, one after the other
StrOf(acc) == BufferConcat(acc)

\* JSONInputHandler.getBody with the accumulated text returned for every
\* input (a variant the parse property must tell apart)
getBody_NeverParses(handler, acc) ==
  IF handler = "BufferInputHandler" THEN BodyBuffer(BufferConcat(acc))
  ELSE BodyText(StrOf(acc))

\* getBody with the last push left out (a variant the whole-body property
\* must tell apart)
getBody_DropsLast(handler, acc) ==
  getBody_NeverParses(handler, IF acc = <<>> THEN acc ELSE SubSeq(acc, 1, Len(acc) - 1))

\* getBody of the three accumulators
getBody(handler, acc) ==
  CASE handler = "BufferInputHandler" -> BodyBuffer(BufferConcat(acc))
    [] handler = "StringInputHandler" -> BodyText(StrOf(acc))
    [] handler = "JSONInputHandler" ->
         IF JSONParseThrows(ConcatText(StrOf(acc))) THEN BodyText(StrOf(acc))
         ELSE BodyValue(JSONParse(ConcatText(StrOf(acc))))

----------------------------------------------------------------------------
\* Middleware Shim: settlement

\* every header forwarded, content-length too (a variant the forwarding
\* property must tell apart)
RECURSIVE ForwardHeaders_All(_, _, _)
ForwardHeaders_All(w, headers, keys) ==
  IF keys = {} THEN w
  ELSE LET k == CHOOSE x \in keys : TRUE
       IN ForwardHeaders_All(setResponseHeader(w, FnHttpHPrefix \o k, <<headers[k]>>),
                             headers, keys \ {k})

\* for (const [key, value] of Object.entries(result.headers))
RECURSIVE ForwardHeaders(_, _, _)
ForwardHeaders(w, headers, keys) ==
  IF keys = {} THEN w
  ELSE LET k == CHOOSE x \in keys : TRUE
           w1 == IF ToLowerCase(k) # ContentLengthLower
                   THEN setResponseHeader(w, FnHttpHPrefix \o k, <<headers[k]>>)
                   ELSE w
       IN ForwardHeaders(w1, headers, keys \ {k})

\* result.headers['content-type']?.[0] || '' : a header value is a string, so
\* [0] is its first character
SniffedContentType(headers) ==
  IF ContentTypeLower \in DOMAIN headers /\ headers[ContentTypeLower] # <<>>
    THEN <<headers[ContentTypeLower][1]>>
    ELSE <<>>

sendExpressResponse(w, result, headers) ==
  IF Threw(w) THEN w
  ELSE IF ~result.hasHeaders THEN Throw(w, UndefinedHeadersError)
  ELSE
    LET contentType == SniffedContentType(headers)
        isJson == Includes(contentType, ApplicationJson) \/ TypeofObject(result.body)
        w1 == IF result.status # 0
                THEN setResponseHeader(w, FnHttpStatusName,
                                       <<NumberToString(result.status)>>)
                ELSE w
        w2 == ForwardHeaders(w1, headers, DOMAIN headers)
    IN IF isJson
         THEN IF result.body.tag = "buf"
                THEN IF JSONParseThrows(result.body.s)
                       THEN Throw(w2, JsonSyntaxError)
                       ELSE sendResult(setResponseContentType(w2, ApplicationJson),
                                       JSONParse(result.body.s))
                ELSE sendResult(setResponseContentType(w2, ApplicationJson),
                                result.body)
         ELSE sendResult(
                setResponseContentType(w2, OrElse(contentType, ApplicationOctetStream)),
                result.body)

\* the guard left out (a variant the single-settlement property must tell apart)
AlreadyHandled_Never(responseHandled) == FALSE

\* the guard of the three settlement paths: if (responseHandled) return
AlreadyHandled(responseHandled) == responseHandled

\* completeResponse(result): the reaction to waitForFinish()
completeResponse(w, responseHandled, result, headers) ==
  IF AlreadyHandled(responseHandled) THEN [w |-> w, handled |-> responseHandled]
  ELSE [w |-> sendExpressResponse(w, result, headers), handled |-> TRUE]

\* handleError(error)
handleError(w, responseHandled, error) ==
  IF AlreadyHandled(responseHandled) THEN [w |-> w, handled |-> responseHandled]
  ELSE [w |-> handleExpressError(w, error), handled |-> TRUE]

\* res.status(404).json(body) on the synthetic response, with Express's
\* response prototype installed on it: status() assigns res.statusCode, json()
\* sets Content-Type unless one is set, send() sets Content-Length and calls
\* end(text)
resStatusJson(res, status, body) ==
  LET text == Stringify(body)
      r1 == [res EXCEPT !.statusCode = status]
      r2 == IF ContentTypeLower \in DOMAIN r1._headers THEN r1
            ELSE resSetHeader(r1, ContentTypeName, ApplicationJsonUtf8)
      r3 == resSetHeader(r2, ContentLengthLower, NumberToString(Len(text)))
  IN resEnd(r3, text)

\* express404Handler().  proto: Express's response prototype is installed on
\* the synthetic response (an express Application); without it (a bare
\* Router) res.status is not a function.  The handler leaves responseHandled
\* alone and hands the synthetic response itself to sendExpressResponse.
express404Handler(w, responseHandled, res, req, proto) ==
  IF responseHandled THEN [w |-> w, res |-> res]
  ELSE IF ~proto THEN [w |-> Throw(w, NotAFunctionError), res |-> res]
  ELSE [w |-> sendExpressResponse(w, ShimReadAsResult, EmptyMap),
        res |-> resStatusJson(res, 404, NotFoundBody(req))]

----------------------------------------------------------------------------
\* State

VARIABLES
  conns,      \* the connections served side by side: for each its accumulator,
              \* Context, synthetic response and transport response
  handleArgs, \* the arguments of handle(): the kind of handler and the options
  inputHandler, \* the InputHandler of the request: "none", or its class
  request,    \* the transport request: method, url, rawHeaders
  framework,  \* options.framework: "express" (middleware chain) or "function"
  phase,      \* "new", "reading", "invoked", "rejected", "readError", "exited"
  chunks,     \* the chunks pushed to the input handler
  ctx,        \* the Context of the invocation
  resp,       \* the transport response
  log,        \* the lines logged
  sends,      \* entries into sendResult / sendJSONError
  micro,      \* queued promise reactions, oldest first
  task,       \* "none", or the macrotask the user's code is in: "sync", "async"
  fn,         \* the plain function handler: state and number of Context calls
  pipe,       \* the source stream piped into the response
  shim,       \* the Shim Exchange: res, req, the finish promise, responseHandled
  hist        \* what has happened (history, read only by properties)

vars == <<conns, handleArgs, inputHandler, request, framework, phase, chunks, ctx, resp, log, sends, micro,
          task, fn, pipe, shim, hist>>

Task(k, v, e) == [k |-> k, v |-> v, e |-> e]

Now == World(resp, ctx, log, sends)

Commit(w) == /\ resp' = w.resp
             /\ ctx' = w.ctx
             /\ log' = w.log
             /\ sends' = w.sends

\* the test with && for || (a variant the 400 property must tell apart)
IsBadRequest_Both(req) == req.method # "POST" /\ req.url # "/call"

\* the transport request is invalid (functionHandler, first test)
IsBadRequest(req) == req.method # "POST" \/ req.url # "/call"

\* the listener with error.message for error.toString() (a variant the
\* read-error property must tell apart)
onRequestError_MessageOnly(w, e) == sendJSONError(w, 500, "Request Error", e.message)

\* the 'error' listener of the request (functionHandler)
onRequestError(w, e) == sendJSONError(w, 500, "Request Error", ErrorToString(e))

\* a new macrotask starts only when every promise reaction has run
Idle == task = "none" /\ micro = <<>>

\* hist.lastSet when no gateway header set by user code is in force; over
\* holds the values the set replaced
NoSet == [name |-> <<>>, values |-> <<>>, over |-> <<>>]

\* hist.call when user code has made no call on the Context; otherwise the
\* last call: its arguments, the response headers before it, what it returned
NoCall == [op |-> "none", key |-> <<>>, values |-> <<>>, before |-> EmptyMap,
           result |-> NoValue]

\* the connections of the side-by-side view, and one on which nothing has
\* happened yet; op is the call its own user code has made (history)
Conns == {1, 2}
NewConn ==
  [phase |-> "new", inputHandler |-> "none", acc |-> <<>>, received |-> <<>>,
   ctx |-> NewCtx(EmptyMap, BodyText(<<>>)), res |-> createExpressResponse,
   resp |-> NewResp, op |-> <<"none">>]

\* a connection on which nothing has happened yet
NoInvocation ==
  /\ conns = [i \in Conns |-> NewConn]
  /\ inputHandler = "none"
  /\ phase = "new"
  /\ chunks = <<>>
  /\ ctx = NewCtx(EmptyMap, BodyText(<<>>))
  /\ resp = NewResp
  /\ log = {}
  /\ sends = 0
  /\ micro = <<>>
  /\ task = "none"
  /\ fn = [state |-> "idle", ops |-> 0]
  /\ pipe = [state |-> "none", left |-> <<>>]
  /\ shim = [res |-> createExpressResponse,
             req |-> [method |-> <<>>, path |-> <<>>, headers |-> EmptyMap,
                      pushed |-> <<>>, ended |-> FALSE],
             settled |-> FALSE, value |-> ShimReadAsResult, atEnd |-> EmptyMap,
             handled |-> FALSE, ops |-> 0]
  /\ hist = [userCalls |-> 0, uncaught |-> FALSE, encoded |-> FALSE,
             encodeFailed |-> "none",
             returned |-> FALSE, failed |-> NoErr, readError |-> NoErr,
             firstTrigger |-> "none", firstError |-> NoErr,
             errAfterEnd |-> FALSE, took404 |-> FALSE,
             raised |-> NoErr, result |-> JNull, ctAtSend |-> <<>>,
             ctAfterSend |-> <<>>, lastSet |-> NoSet,
             received |-> <<>>, call |-> NoCall]

\* handle(handler, options) has run; no connection has been served
Started ==
  /\ framework = FrameworkOf(handle(handleArgs.handler, handleArgs.options))
  /\ NoInvocation

Init ==
  /\ handleArgs \in HandleArgs
  /\ request \in [method : Methods, url : Urls, rawHeaders : RawHeaderLists]
  /\ Started

----------------------------------------------------------------------------
\* Dispatch Loop: functionHandler

\* functionHandler, first statement: the accumulator of this request
NewInputHandler ==
  getInputHandler(InputModeOf(handle(handleArgs.handler, handleArgs.options)))

\* a request that is not POST /call is answered at once
RejectRequest ==
  /\ phase = "new"
  /\ IsBadRequest(request)
  /\ Commit(sendJSONError(Now, 400, "Invalid method", fnFunctionBadRequestErrorMessage))
  /\ phase' = "rejected"
  /\ inputHandler' = NewInputHandler
  /\ UNCHANGED <<conns, handleArgs, request, framework, chunks, micro, task, fn, pipe, shim, hist>>

\* otherwise the three listeners are registered
AcceptRequest ==
  /\ phase = "new"
  /\ ~IsBadRequest(request)
  /\ phase' = "reading"
  /\ inputHandler' = NewInputHandler
  /\ UNCHANGED <<conns, handleArgs, request, framework, chunks, ctx, resp, log, sends, micro,
                 task, fn, pipe, shim, hist>>

\* req.on('data')
DataEvent(chunk) ==
  /\ phase = "reading"
  /\ Len(chunks) < MaxChunks
  /\ chunks' = pushData(inputHandler, chunks, chunk)
  /\ hist' = [hist EXCEPT !.received = Append(@, chunk)]
  /\ UNCHANGED <<conns, handleArgs, inputHandler, request, framework, phase, ctx, resp, log, sends, micro,
                 task, fn, pipe, shim>>

\* req.on('error')
ErrorEvent(e) ==
  /\ phase = "reading"
  /\ Commit(onRequestError(Now, e))
  /\ phase' = "readError"
  /\ hist' = [hist EXCEPT !.readError = e]
  /\ UNCHANGED <<conns, handleArgs, inputHandler, request, framework, chunks, micro, task, fn, pipe, shim>>

\* req.on('end') with a plain function handler: the Context is built and
\* invokeUserFunction calls the handler
EndEventFunction ==
  /\ phase = "reading"
  /\ framework = "function"
  /\ phase' = "invoked"
  /\ ctx' = NewCtx(processHeaders(request.rawHeaders), getBody(inputHandler, chunks))
  /\ fn' = [fn EXCEPT !.state = "running"]
  /\ task' = "sync"
  /\ hist' = [hist EXCEPT !.userCalls = @ + 1]
  /\ UNCHANGED <<conns, handleArgs, inputHandler, request, framework, chunks, resp, log, sends, micro, pipe, shim>>

\* req.on('end') with a middleware chain: handleExpressRequest builds the
\* Shim Exchange, registers the reactions on waitForFinish() and calls the chain
EndEventExpress ==
  /\ phase = "reading"
  /\ framework = "express"
  /\ phase' = "invoked"
  /\ LET c == NewCtx(processHeaders(request.rawHeaders), getBody(inputHandler, chunks))
     IN /\ ctx' = c
        /\ shim' = [shim EXCEPT !.req = createExpressRequest(c, ShimBody(c.body))]
  /\ task' = "sync"
  /\ hist' = [hist EXCEPT !.userCalls = @ + 1]
  /\ UNCHANGED <<conns, handleArgs, inputHandler, request, framework, chunks, resp, log, sends, micro, fn, pipe>>

----------------------------------------------------------------------------
\* A plain function handler (user code) and invokeUserFunction

\* user code sets the response content-type, while it runs or later
UserSetContentType(ct) ==
  /\ phase = "invoked"
  /\ framework = "function"
  /\ fn.ops < MaxUserOps
  /\ \/ (task = "sync" /\ fn.state = "running")
     \/ (Idle /\ fn.state # "running")
  /\ Commit(setResponseContentType(Now, ct))
  /\ fn' = [fn EXCEPT !.ops = @ + 1]
  /\ UNCHANGED <<conns, handleArgs, inputHandler, request, framework, phase, chunks, micro,
                 task, pipe, shim, hist>>

\* user code is running, or runs again later (its promise still pending or
\* not), and may make another call on the Context
UserCan ==
  /\ phase = "invoked"
  /\ framework = "function"
  /\ fn.ops < MaxUserOps
  /\ \/ (task = "sync" /\ fn.state = "running")
     \/ (Idle /\ fn.state # "running")

\* ctx.setResponseHeader(key, ...values)
UserSetResponseHeader(kv) ==
  /\ UserCan
  /\ Commit(setResponseHeader(Now, kv[1], kv[2]))
  /\ fn' = [fn EXCEPT !.ops = @ + 1]
  /\ hist' = [hist EXCEPT !.call = [op |-> "set", key |-> kv[1], values |-> kv[2],
                                    before |-> ctx.responseHeaders, result |-> NoValue]]
  /\ UNCHANGED <<conns, handleArgs, inputHandler, request, framework, phase, chunks, micro,
                 task, pipe, shim>>

\* ctx.addResponseHeader(key, ...values)
UserAddResponseHeader(kv) ==
  /\ UserCan
  /\ Commit(addResponseHeader(Now, kv[1], kv[2]))
  /\ fn' = [fn EXCEPT !.ops = @ + 1]
  /\ hist' = [hist EXCEPT !.call = [op |-> "add", key |-> kv[1], values |-> kv[2],
                                    before |-> ctx.responseHeaders, result |-> NoValue]]
  /\ UNCHANGED <<conns, handleArgs, inputHandler, request, framework, phase, chunks, micro,
                 task, pipe, shim>>

\* ctx.getResponseHeader(key)
UserGetResponseHeader(key) ==
  /\ UserCan
  /\ fn' = [fn EXCEPT !.ops = @ + 1]
  /\ hist' = [hist EXCEPT !.call = [op |-> "getResponseHeader", key |-> key, values |-> <<>>,
                                    before |-> ctx.responseHeaders,
                                    result |-> getResponseHeader(ctx, key)]]
  /\ UNCHANGED <<conns, handleArgs, inputHandler, request, framework, phase, chunks, ctx, resp, log, sends,
                 micro, task, pipe, shim>>

\* ctx.getHeader(key)
UserGetHeader(key) ==
  /\ UserCan
  /\ fn' = [fn EXCEPT !.ops = @ + 1]
  /\ hist' = [hist EXCEPT !.call = [op |-> "getHeader", key |-> key, values |-> <<>>,
                                    before |-> ctx.responseHeaders,
                                    result |-> getHeader(ctx, key)]]
  /\ UNCHANGED <<conns, handleArgs, inputHandler, request, framework, phase, chunks, ctx, resp, log, sends,
                 micro, task, pipe, shim>>

\* ctx.httpGateway.headers
UserGatewayHeaders ==
  /\ UserCan
  /\ fn' = [fn EXCEPT !.ops = @ + 1]
  /\ hist' = [hist EXCEPT !.call = [op |-> "gatewayHeaders", key |-> <<>>, values |-> <<>>,
                                    before |-> ctx.responseHeaders,
                                    result |-> gatewayHeaders(ctx)]]
  /\ UNCHANGED <<conns, handleArgs, inputHandler, request, framework, phase, chunks, ctx, resp, log, sends,
                 micro, task, pipe, shim>>

\* ctx.getAllHeaderValues(key)
UserGetAllHeaderValues(key) ==
  /\ UserCan
  /\ fn' = [fn EXCEPT !.ops = @ + 1]
  /\ hist' = [hist EXCEPT !.call = [op |-> "getAllHeaderValues", key |-> key, values |-> <<>>,
                                    before |-> ctx.responseHeaders,
                                    result |-> getAllHeaderValues(ctx, key)]]
  /\ UNCHANGED <<conns, handleArgs, inputHandler, request, framework, phase, chunks, ctx, resp, log, sends,
                 micro, task, pipe, shim>>

\* ctx.httpGateway.headers[headerName], a list of the enumeration
UserGatewayHeaderList(headerName) ==
  /\ UserCan
  /\ headerName \in DOMAIN gatewayHeaders(ctx)
  /\ fn' = [fn EXCEPT !.ops = @ + 1]
  /\ hist' = [hist EXCEPT !.call = [op |-> "gatewayHeaderList", key |-> headerName, values |-> <<>>,
                                    before |-> ctx.responseHeaders,
                                    result |-> gatewayHeaderList(ctx, headerName)]]
  /\ UNCHANGED <<conns, handleArgs, inputHandler, request, framework, phase, chunks, ctx, resp, log, sends,
                 micro, task, pipe, shim>>

\* user code puts a value in front of the list its last call handed to it
UserUnshift(v) ==
  /\ phase = "invoked"
  /\ framework = "function"
  /\ task = "sync" /\ fn.state = "running"
  /\ hist.call.op \in {"getAllHeaderValues", "gatewayHeaderList"}
  /\ ctx' = ListUnshift(ctx, hist.call.result, v)
  /\ hist' = [hist EXCEPT !.call.op = "unshift", !.call.values = <<v>>]
  /\ UNCHANGED <<conns, handleArgs, inputHandler, request, framework, phase, chunks, resp, log, sends,
                 micro, task, fn, pipe, shim>>

\* ctx.httpGateway.statusCode = status
UserSetStatusCode(status) ==
  /\ UserCan
  /\ Commit(gatewayStatusCode(Now, status))
  /\ fn' = [fn EXCEPT !.ops = @ + 1]
  /\ hist' = [hist EXCEPT !.call = [op |-> "statusCode", key |-> FnHttpStatusName,
                                    values |-> <<NumberToString(status)>>,
                                    before |-> ctx.responseHeaders, result |-> NoValue]]
  /\ UNCHANGED <<conns, handleArgs, inputHandler, request, framework, phase, chunks, micro,
                 task, pipe, shim>>

\* ctx.httpGateway.setResponseHeader(key, ...values)
UserGatewaySetHeader(kv) ==
  /\ UserCan
  /\ Commit(gatewaySetResponseHeader(Now, kv[1], kv[2]))
  /\ fn' = [fn EXCEPT !.ops = @ + 1]
  /\ hist' = [hist EXCEPT !.lastSet =
                IF hist.encoded \/ canonHeader(kv[1]) = ContentTypeName THEN @
                ELSE LET name == canonHeader(FnHttpHPrefix \o kv[1])
                     IN [name |-> name, values |-> kv[2],
                         over |-> IF name \in DOMAIN ctx.responseHeaders
                                    THEN ctx.responseHeaders[name] ELSE <<>>]]
  /\ UNCHANGED <<conns, handleArgs, inputHandler, request, framework, phase, chunks, micro,
                 task, pipe, shim>>

\* ctx.httpGateway.addResponseHeader(key, ...values)
UserGatewayAddHeader(kv) ==
  /\ UserCan
  /\ Commit(gatewayAddResponseHeader(Now, kv[1], kv[2]))
  /\ fn' = [fn EXCEPT !.ops = @ + 1]
  /\ hist' = [hist EXCEPT !.lastSet =
                IF ~hist.encoded /\ @.name = canonHeader(FnHttpHPrefix \o kv[1])
                  THEN NoSet ELSE @]
  /\ UNCHANGED <<conns, handleArgs, inputHandler, request, framework, phase, chunks, micro,
                 task, pipe, shim>>

\* the handler returns a value: Promise.resolve(value).then(sendResult)
FnReturn(v) ==
  /\ phase = "invoked"
  /\ fn.state = "running"
  /\ fn' = [fn EXCEPT !.state = "settled"]
  /\ task' = "none"
  /\ micro' = Append(micro, Task("fnThen", v, NoErr))
  /\ hist' = [hist EXCEPT !.returned = TRUE]
  /\ UNCHANGED <<conns, handleArgs, inputHandler, request, framework, phase, chunks, ctx, resp, log, sends, pipe, shim>>

\* the handler returns a promise that is still pending
FnReturnPromise ==
  /\ phase = "invoked"
  /\ fn.state = "running"
  /\ fn' = [fn EXCEPT !.state = "pending"]
  /\ task' = "none"
  /\ UNCHANGED <<conns, handleArgs, inputHandler, request, framework, phase, chunks, ctx, resp, log, sends,
                 micro, pipe, shim, hist>>

\* the handler throws: the catch block of invokeUserFunction
FnThrow(e) ==
  /\ phase = "invoked"
  /\ fn.state = "running"
  /\ fn' = [fn EXCEPT !.state = "settled"]
  /\ task' = "none"
  /\ LET w == handleFunctionError(Now, e)
     IN /\ Commit(w)
        /\ hist' = [hist EXCEPT !.failed = e, !.uncaught = @ \/ Threw(w)]
  /\ UNCHANGED <<conns, handleArgs, inputHandler, request, framework, phase, chunks, micro, pipe, shim>>

\* the returned promise is fulfilled
FnResolve(v) ==
  /\ phase = "invoked"
  /\ fn.state = "pending"
  /\ Idle
  /\ fn' = [fn EXCEPT !.state = "settled"]
  /\ micro' = Append(micro, Task("fnThen", v, NoErr))
  /\ hist' = [hist EXCEPT !.returned = TRUE]
  /\ UNCHANGED <<conns, handleArgs, inputHandler, request, framework, phase, chunks, ctx, resp, log, sends,
                 task, pipe, shim>>

\* the returned promise is rejected: the rejection passes .then and reaches .catch
FnReject(e) ==
  /\ phase = "invoked"
  /\ fn.state = "pending"
  /\ Idle
  /\ fn' = [fn EXCEPT !.state = "settled"]
  /\ micro' = Append(micro, Task("fnCatch", JNull, e))
  /\ hist' = [hist EXCEPT !.failed = e]
  /\ UNCHANGED <<conns, handleArgs, inputHandler, request, framework, phase, chunks, ctx, resp, log, sends,
                 task, pipe, shim>>

\* what a call of sendResult leaves queued: the rejection handler when it
\* threw, resp.end() when p is a resolved promise
QueuedAfter(w, catcher) ==
  IF Threw(w) THEN <<Task(catcher, JNull, w.err)>>
  ELSE IF w.pend = "then" THEN <<Task("endThen", JNull, NoErr)>>
  ELSE <<>>

\* stream.pipe(resp) of a StreamResult
PipeAfter(w, v) ==
  IF ~Threw(w) /\ w.pend = "stream"
    THEN [state |-> "open", left |-> <<v.s>>]
    ELSE pipe

\* sendResult threw after it committed the status line
FailedAfterCommit(w) == Threw(w) /\ resp.status = 0 /\ w.resp.status # 0

\* .then((result) => sendResult(ctx, resp, result))
RunFnThen ==
  /\ phase = "invoked"
  /\ task = "none"
  /\ micro # <<>>
  /\ Head(micro).k = "fnThen"
  /\ LET v == Head(micro).v
         w == sendResult(Now, v)
     IN /\ Commit(w)
        /\ micro' = Tail(micro) \o QueuedAfter(w, "fnCatch")
        /\ pipe' = PipeAfter(w, v)
        /\ hist' = [hist EXCEPT
                      !.encoded = TRUE,
                      !.encodeFailed = IF FailedAfterCommit(w) THEN "sync" ELSE @,
                      !.raised = IF Threw(w) THEN w.err ELSE @,
                      !.result = v,
                      !.ctAtSend = ctx.responseContentType,
                      !.ctAfterSend = w.ctx.responseContentType]
  /\ UNCHANGED <<conns, handleArgs, inputHandler, request, framework, phase, chunks, task, fn, shim>>

\* .catch((error) => handleFunctionError(error, resp)); an exception thrown
\* by the reaction itself is an unhandled rejection
RunFnCatch ==
  /\ phase = "invoked"
  /\ task = "none"
  /\ micro # <<>>
  /\ Head(micro).k = "fnCatch"
  /\ LET w == handleFunctionError(Now, Head(micro).e)
     IN /\ Commit(w)
        /\ hist' = [hist EXCEPT !.uncaught = @ \/ Threw(w)]
  /\ micro' = Tail(micro)
  /\ UNCHANGED <<conns, handleArgs, inputHandler, request, framework, phase, chunks, task, fn, pipe, shim>>

\* p.then(() => resp.end(), ...)
RunEndThen ==
  /\ phase = "invoked"
  /\ task = "none"
  /\ micro # <<>>
  /\ Head(micro).k = "endThen"
  /\ resp' = RespEndCall(resp)
  /\ micro' = Tail(micro)
  /\ UNCHANGED <<conns, handleArgs, inputHandler, request, framework, phase, chunks, ctx, log, sends, task,
                 fn, pipe, shim, hist>>

\* p.then(..., (err) => { console.error(...); resp.end(); })
RunEndCatch ==
  /\ phase = "invoked"
  /\ task = "none"
  /\ micro # <<>>
  /\ Head(micro).k = "endCatch"
  /\ log' = log \cup {"Error writing response"}
  /\ resp' = RespEndCall(resp)
  /\ micro' = Tail(micro)
  /\ UNCHANGED <<conns, handleArgs, inputHandler, request, framework, phase, chunks, ctx, sends, task, fn,
                 pipe, shim, hist>>

----------------------------------------------------------------------------
\* StreamResult.writeResult: the source stream after stream.pipe(resp)

\* a chunk of the source is written to the response by the pipe
StreamData ==
  /\ phase = "invoked"
  /\ Idle
  /\ pipe.state = "open"
  /\ pipe.left # <<>>
  /\ resp' = RespWriteBytes(resp, Head(pipe.left))
  /\ pipe' = [pipe EXCEPT !.left = Tail(@)]
  /\ UNCHANGED <<conns, handleArgs, inputHandler, request, framework, phase, chunks, ctx, log, sends, micro,
                 task, fn, shim, hist>>

\* 'end' of the source: the pipe's own listener, registered first, ends the
\* response (pipe's default end: true); then the listener added by
\* writeResult resolves p
StreamEnd ==
  /\ phase = "invoked"
  /\ Idle
  /\ pipe.state = "open"
  /\ pipe.left = <<>>
  /\ resp' = RespEndCall(resp)
  /\ pipe' = [pipe EXCEPT !.state = "closed"]
  /\ micro' = Append(micro, Task("endThen", JNull, NoErr))
  /\ UNCHANGED <<conns, handleArgs, inputHandler, request, framework, phase, chunks, ctx, log, sends, task,
                 fn, shim, hist>>

\* 'error' of the source: the pipe does not end the response; p is rejected
StreamError(e) ==
  /\ phase = "invoked"
  /\ Idle
  /\ pipe.state = "open"
  /\ pipe' = [pipe EXCEPT !.state = "closed"]
  /\ micro' = Append(micro, Task("endCatch", JNull, e))
  /\ hist' = [hist EXCEPT !.encodeFailed = "stream", !.raised = e]
  /\ UNCHANGED <<conns, handleArgs, inputHandler, request, framework, phase, chunks, ctx, resp, log, sends,
                 task, fn, shim>>

----------------------------------------------------------------------------
\* A middleware chain (user code) and handleExpressRequest

\* the chain is running (inside app(req, res, cb) or in a later callback) and
\* may make another call
HandlerCan ==
  /\ phase = "invoked"
  /\ framework = "express"
  /\ task \in {"sync", "async"}
  /\ shim.ops < MaxHandlerOps

\* _resolve(...) inside end(): the first call settles the promise and queues
\* completeResponse, later calls change nothing.  atEnd: the headers as they
\* were at that call (history, read only by properties)
Resolved(sh, res) ==
  IF res._finished /\ ~sh.settled
    THEN [sh EXCEPT !.res = res, !.settled = TRUE, !.value = ExpressResponseOf(res),
                    !.atEnd = res._headers, !.ops = @ + 1]
    ELSE [sh EXCEPT !.res = res, !.ops = @ + 1]

QueuedByResolve(sh, res) ==
  IF res._finished /\ ~sh.settled THEN <<Task("complete", JNull, NoErr)>> ELSE <<>>

FirstTrigger(h, kind, e) ==
  IF h.firstTrigger = "none"
    THEN [h EXCEPT !.firstTrigger = kind, !.firstError = e]
    ELSE h

ResSetHeader(kv) ==
  /\ HandlerCan
  /\ shim' = [shim EXCEPT !.res = resSetHeader(@, kv[1], kv[2]), !.ops = @ + 1]
  /\ hist' = [hist EXCEPT !.call = [op |-> "res.setHeader", key |-> kv[1],
                                    values |-> <<kv[2]>>,
                                    before |-> ctx.responseHeaders, result |-> NoValue]]
  /\ UNCHANGED <<conns, handleArgs, inputHandler, request, framework, phase, chunks, ctx, resp, log, sends,
                 micro, task, fn, pipe>>

ResWriteHead(status) ==
  /\ HandlerCan
  /\ shim' = [shim EXCEPT !.res = resWriteHead(@, status), !.ops = @ + 1]
  /\ UNCHANGED <<conns, handleArgs, inputHandler, request, framework, phase, chunks, ctx, resp, log, sends,
                 micro, task, fn, pipe, hist>>

ResWrite(chunk) ==
  /\ HandlerCan
  /\ shim' = [shim EXCEPT !.res = resWrite(@, chunk), !.ops = @ + 1]
  /\ UNCHANGED <<conns, handleArgs, inputHandler, request, framework, phase, chunks, ctx, resp, log, sends,
                 micro, task, fn, pipe, hist>>

\* res.end(chunk): trigger (a)
ResEnd(chunk) ==
  /\ HandlerCan
  /\ LET res == resEnd(shim.res, chunk)
     IN /\ shim' = Resolved(shim, res)
        /\ micro' = micro \o QueuedByResolve(shim, res)
  /\ hist' = FirstTrigger(hist, "end", NoErr)
  /\ UNCHANGED <<conns, handleArgs, inputHandler, request, framework, phase, chunks, ctx, resp, log, sends,
                 task, fn, pipe>>

\* cb() after the response was ended: nothing to do
NextAfterEnd ==
  /\ HandlerCan
  /\ shim.res._finished
  /\ shim' = [shim EXCEPT !.ops = @ + 1]
  /\ UNCHANGED <<conns, handleArgs, inputHandler, request, framework, phase, chunks, ctx, resp, log, sends,
                 micro, task, fn, pipe, hist>>

\* cb() with no response ended: trigger (b), express404Handler.  The
\* exception it raises leaves through the chain that called cb: the chain
\* either lets it pass (to the try/catch around app(...) when cb was called
\* synchronously, to nobody otherwise) or catches it and goes on.
NextNotFound(proto, passes) ==
  /\ HandlerCan
  /\ ~shim.res._finished
  /\ LET r == express404Handler(Now, shim.handled, shim.res, shim.req, proto)
         thrown == Threw(r.w)
         caught == thrown /\ passes /\ task = "sync"
         h == IF caught THEN handleError(Caught(r.w), shim.handled, r.w.err)
              ELSE [w |-> Caught(r.w), handled |-> shim.handled]
     IN /\ Commit(Caught(h.w))
        /\ shim' = [Resolved(shim, r.res) EXCEPT !.handled = h.handled]
        /\ micro' = micro \o QueuedByResolve(shim, r.res)
        /\ task' = IF thrown /\ passes THEN "none" ELSE task
        /\ hist' = [FirstTrigger(hist, "next", NoErr) EXCEPT
                      !.took404 = TRUE,
                      !.uncaught = @ \/ (thrown /\ passes /\ task = "async")
                                     \/ Threw(h.w)]
  /\ UNCHANGED <<conns, handleArgs, inputHandler, request, framework, phase, chunks, fn, pipe>>

\* cb(err): trigger (c)
NextError(e) ==
  /\ HandlerCan
  /\ LET h == handleError(Now, shim.handled, e)
     IN /\ Commit(Caught(h.w))
        /\ shim' = [shim EXCEPT !.handled = h.handled, !.ops = @ + 1]
        /\ hist' = [FirstTrigger(hist, "error", e) EXCEPT
                      !.errAfterEnd = @ \/ shim.res._finished,
                      !.uncaught = @ \/ Threw(h.w)]
  /\ UNCHANGED <<conns, handleArgs, inputHandler, request, framework, phase, chunks, micro, task, fn, pipe>>

\* the chain throws inside app(req, res, cb): the catch block, trigger (c)
HandlerThrow(e) ==
  /\ HandlerCan
  /\ task = "sync"
  /\ LET h == handleError(Now, shim.handled, e)
     IN /\ Commit(Caught(h.w))
        /\ shim' = [shim EXCEPT !.handled = h.handled, !.ops = @ + 1]
        /\ hist' = [FirstTrigger(hist, "error", e) EXCEPT
                      !.errAfterEnd = @ \/ shim.res._finished,
                      !.uncaught = @ \/ Threw(h.w)]
  /\ task' = "none"
  /\ UNCHANGED <<conns, handleArgs, inputHandler, request, framework, phase, chunks, micro, fn, pipe>>

\* app(req, res, cb) returns, or a later callback of the chain returns
HandlerReturn ==
  /\ phase = "invoked"
  /\ framework = "express"
  /\ task \in {"sync", "async"}
  /\ task' = "none"
  /\ UNCHANGED <<conns, handleArgs, inputHandler, request, framework, phase, chunks, ctx, resp, log, sends,
                 micro, fn, pipe, shim, hist>>

\* a timer or I/O callback of the chain starts
HandlerWake ==
  /\ phase = "invoked"
  /\ framework = "express"
  /\ Idle
  /\ shim.ops < MaxHandlerOps
  /\ task' = "async"
  /\ UNCHANGED <<conns, handleArgs, inputHandler, request, framework, phase, chunks, ctx, resp, log, sends,
                 micro, fn, pipe, shim, hist>>

\* res.waitForFinish().then(completeResponse)
RunComplete ==
  /\ phase = "invoked"
  /\ task = "none"
  /\ micro # <<>>
  /\ Head(micro).k = "complete"
  /\ LET r == completeResponse(Now, shim.handled, shim.value, shim.res._headers)
     IN /\ Commit(r.w)
        /\ shim' = [shim EXCEPT !.handled = r.handled]
        /\ micro' = Tail(micro) \o QueuedAfter(r.w, "shimCatch")
        /\ hist' = [hist EXCEPT
                      !.encoded = @ \/ r.w.sends > sends,
                      !.encodeFailed = IF FailedAfterCommit(r.w) THEN "sync" ELSE @,
                      !.raised = IF Threw(r.w) THEN r.w.err ELSE @]
  /\ UNCHANGED <<conns, handleArgs, inputHandler, request, framework, phase, chunks, task, fn, pipe>>

\* .catch(handleError): the reaction to an exception of completeResponse
RunShimCatch ==
  /\ phase = "invoked"
  /\ task = "none"
  /\ micro # <<>>
  /\ Head(micro).k = "shimCatch"
  /\ LET h == handleError(Now, shim.handled, Head(micro).e)
     IN /\ Commit(Caught(h.w))
        /\ shim' = [shim EXCEPT !.handled = h.handled]
        /\ hist' = [hist EXCEPT !.uncaught = @ \/ Threw(h.w)]
  /\ micro' = Tail(micro)
  /\ UNCHANGED <<conns, handleArgs, inputHandler, request, framework, phase, chunks, task, fn, pipe>>

\* an uncaught exception or unhandled rejection ends the process
ProcessExit ==
  /\ phase = "invoked"
  /\ hist.uncaught
  /\ phase' = "exited"
  /\ UNCHANGED <<conns, handleArgs, inputHandler, request, framework, chunks, ctx, resp, log, sends, micro,
                 task, fn, pipe, shim, hist>>

----------------------------------------------------------------------------
\* One connection with an empty body: the request is rejected, fails while
\* read, or ends and is handed to the plain function or the middleware
\* chain.  Bodies that arrive in chunks are followed in InputSpec, BodySpec
\* and PairSpec.
Next ==
  \/ RejectRequest
  \/ AcceptRequest
  \/ \E e \in Errors : ErrorEvent(e)
  \/ EndEventFunction
  \/ EndEventExpress
  \/ \E ct \in UserContentTypes : UserSetContentType(ct)
  \/ \E kv \in GatewaySets : UserGatewaySetHeader(kv)
  \/ \E kv \in GatewayAdds : UserGatewayAddHeader(kv)
  \/ \E v \in ResultValues : FnReturn(v)
  \/ FnReturnPromise
  \/ \E e \in Errors : FnThrow(e)
  \/ \E v \in ResultValues : FnResolve(v)
  \/ \E e \in Errors : FnReject(e)
  \/ RunFnThen
  \/ RunFnCatch
  \/ RunEndThen
  \/ RunEndCatch
  \/ StreamData
  \/ StreamEnd
  \/ \E e \in Errors : StreamError(e)
  \/ \E kv \in HandlerHeaders : ResSetHeader(kv)
  \/ \E st \in HandlerStatuses : ResWriteHead(st)
  \/ \E c \in HandlerWrites : ResWrite(c)
  \/ \E c \in HandlerEnds : ResEnd(c)
  \/ NextAfterEnd
  \/ \E proto \in BOOLEAN, passes \in BOOLEAN : NextNotFound(proto, passes)
  \/ \E e \in Errors : NextError(e)
  \/ \E e \in Errors : HandlerThrow(e)
  \/ HandlerReturn
  \/ HandlerWake
  \/ RunComplete
  \/ RunShimCatch
  \/ ProcessExit

Spec == Init /\ [][Next]_vars

----------------------------------------------------------------------------
\* The Header Codec on its own: processHeaders applied to the raw header
\* list of a request, for every list of at most MaxRawHeaders headers whose
\* names are the deny-set names in the casings a peer may send, or an
\* ordinary name

\* a name written with '_' for '-'
WithUnderscore(h) == [i \in 1..Len(h) |-> IF h[i] = "-" THEN "_" ELSE h[i]]

WireNames ==
  UNION { {h, ToLowerCase(h), WithUnderscore(ToLowerCase(h))} : h \in skipHeaders }
  \cup {XFoo, ToLowerCase(XFoo)}

WireValues == { <<"v">>, <<"w">> }

\* the flat lists name, value, ... of exactly n headers
RECURSIVE RawHeadersOf(_)
RawHeadersOf(n) ==
  IF n = 0 THEN { <<>> }
  ELSE { <<name, value>> \o rest :
           name \in WireNames, value \in WireValues, rest \in RawHeadersOf(n - 1) }

CodecInit ==
  /\ request \in { [method |-> "POST", url |-> "/call", rawHeaders |-> h] :
                     h \in UNION { RawHeadersOf(n) : n \in 0..MaxRawHeaders } }
  /\ handleArgs = [handler |-> "function", options |-> NoOptions]
  /\ Started

\* const headers = processHeaders(req.rawHeaders); new Context(..., headers)
DecodeHeaders ==
  /\ phase = "new"
  /\ phase' = "decoded"
  /\ ctx' = NewCtx(processHeaders(request.rawHeaders), BodyText(<<>>))
  /\ UNCHANGED <<conns, handleArgs, inputHandler, request, framework, chunks, resp, log, sends, micro, task,
                 fn, pipe, shim, hist>>

CodecNext == DecodeHeaders

CodecSpec == CodecInit /\ [][CodecNext]_vars

----------------------------------------------------------------------------
\* The Input Accumulators on bounded bodies: every way of calling handle(),
\* bodies of JSON text and of a two-byte character, split in every way

InputArgs ==
  [handler : {"function", "application"},
   options : [framework : {"", "express"},
              inputMode : {"", "json", "string", "buffer"}]]

InputChunks ==
  { <<"{\"a\"">>, <<":1}">>, <<LeadByte>>, <<ContinuationByte>>,
    <<LeadByte, ContinuationByte>> }

InputInit ==
  /\ handleArgs \in InputArgs
  /\ request \in [method : Methods, url : Urls, rawHeaders : { <<>> }]
  /\ Started

InputNext ==
  \/ RejectRequest
  \/ AcceptRequest
  \/ \E c \in InputChunks : DataEvent(c)
  \/ \E e \in Errors : ErrorEvent(e)
  \/ EndEventFunction
  \/ EndEventExpress

InputSpec == InputInit /\ [][InputNext]_vars

----------------------------------------------------------------------------
\* One connection from its first event to the end of its response: the body
\* arrives in chunks, the read may fail, and a plain function handler
\* returns or throws

BodyArgs ==
  [handler : {"function"},
   options : [framework : {""}, inputMode : {"", "string", "buffer"}]]

BodyChunks == ChunkValues \cup { <<"b">> }
BodyResults == { JStr("plain"), Cyclic }

BodyInit ==
  /\ handleArgs \in BodyArgs
  /\ request \in [method : Methods, url : Urls, rawHeaders : { <<>> }]
  /\ Started

BodyNext ==
  \/ RejectRequest
  \/ AcceptRequest
  \/ \E c \in BodyChunks : DataEvent(c)
  \/ \E e \in Errors : ErrorEvent(e)
  \/ EndEventFunction
  \/ \E v \in BodyResults : FnReturn(v)
  \/ \E e \in Errors : FnThrow(e)
  \/ RunFnThen
  \/ RunFnCatch
  \/ RunEndThen

BodySpec == BodyInit /\ [][BodyNext]_vars

----------------------------------------------------------------------------
\* The Context's header calls: a plain function handler reads the request's
\* headers and sets, adds and reads response headers

\* no header; or fn-http-h-x_foo: v, X-Foo: u, FN-HTTP-H-X-FOO: w and the
\* bare prefix fn_http_h_: b
ContextRawHeaders ==
  { <<>>,
    << ToLowerCase(FnHttpHPrefix) \o <<"x","_","f","o","o">>, <<"v">>,
       XFoo, <<"u">>,
       ToUpperCase(FnHttpHPrefix \o XFoo), <<"w">>,
       <<"f","n","_","h","t","t","p","_","h","_">>, <<"b">> >> }

ContextKeys == { XFoo, <<"x","_","f","o","o">>, <<"Y">> }
ContextValues == { << <<"v">> >>, << <<"w">>, <<"v">> >> }
RequestKeys == { <<"x","_","F","O","O">>, ToLowerCase(FnHttpHPrefix \o XFoo), <<"Y">> }

ContextInit ==
  /\ handleArgs = [handler |-> "function", options |-> NoOptions]
  /\ request \in [method : {"POST"}, url : {"/call"}, rawHeaders : ContextRawHeaders]
  /\ Started

ContextNext ==
  \/ AcceptRequest
  \/ EndEventFunction
  \/ \E k \in ContextKeys, vs \in ContextValues : UserSetResponseHeader(<<k, vs>>)
  \/ \E k \in ContextKeys, vs \in ContextValues : UserAddResponseHeader(<<k, vs>>)
  \/ \E k \in ContextKeys : UserGetResponseHeader(k)
  \/ \E k \in RequestKeys : UserGetHeader(k)
  \/ UserGatewayHeaders

ContextSpec == ContextInit /\ [][ContextNext]_vars

----------------------------------------------------------------------------
\* Canonicalization on every short name: the first call of a plain function
\* handler is ctx.setResponseHeader(name, 'v')

RECURSIVE NamesOfLen(_)
NamesOfLen(n) ==
  IF n = 0 THEN { <<>> }
  ELSE { <<c>> \o rest : c \in {"a", "B", "c", "-", "_"}, rest \in NamesOfLen(n - 1) }

CanonNames == UNION { NamesOfLen(n) : n \in 0..MaxNameLen }

CanonInit ==
  /\ handleArgs = [handler |-> "function", options |-> NoOptions]
  /\ request = [method |-> "POST", url |-> "/call", rawHeaders |-> <<>>]
  /\ Started

\* the first call of user code on the Context
FirstSetResponseHeader(name) ==
  /\ fn.ops = 0
  /\ UserSetResponseHeader(<<name, << <<"v">> >> >>)

CanonNext ==
  \/ AcceptRequest
  \/ EndEventFunction
  \/ \E name \in CanonNames : FirstSetResponseHeader(name)

CanonSpec == CanonInit /\ [][CanonNext]_vars

----------------------------------------------------------------------------
\* The Result Encoder on what a plain function sets under the names the
\* encoder itself writes, and under a name that is no HTTP token

\* content_length, FN-FDK-VERSION, fn-fdk-runtime and "a b", each set to 5
EncoderSets ==
  { <<k, << <<"5">> >> >> :
      k \in { <<"c","o","n","t","e","n","t","_","l","e","n","g","t","h">>,
              ToUpperCase(FnFdkVersionName), ToLowerCase(FnFdkRuntimeName),
              <<"a"," ","b">> } }

EncoderInit ==
  /\ handleArgs = [handler |-> "function", options |-> NoOptions]
  /\ request = [method |-> "POST", url |-> "/call", rawHeaders |-> <<>>]
  /\ Started

EncoderNext ==
  \/ AcceptRequest
  \/ EndEventFunction
  \/ \E kv \in EncoderSets : UserSetResponseHeader(kv)
  \/ UserSetStatusCode(404)
  \/ FnReturn(JStr("plain"))
  \/ RunFnThen
  \/ RunFnCatch
  \/ RunEndThen

EncoderSpec == EncoderInit /\ [][EncoderNext]_vars

----------------------------------------------------------------------------
\* Calls on the Context after the response is committed: a plain function
\* handler returns a stream or a text and goes on setting and adding
\* response headers and the content-type while the source is piped

LateResults ==
  { StreamResultOf("data"), JStr("plain"), JNum("1"), JObj(<< <<"x", JNum("1")>> >>),
    Cyclic }

LateInit ==
  /\ handleArgs = [handler |-> "function", options |-> NoOptions]
  /\ request = [method |-> "POST", url |-> "/call", rawHeaders |-> <<>>]
  /\ Started

LateNext ==
  \/ AcceptRequest
  \/ EndEventFunction
  \/ \E ct \in {TextPlain} : UserSetContentType(ct)
  \/ \E kv \in EncoderSets \cup { <<XFoo, << <<"5">> >> >> } : UserSetResponseHeader(kv)
  \/ \E kv \in { <<XFoo, << <<"6">> >> >> } : UserAddResponseHeader(kv)
  \/ \E kv \in GatewaySets : UserGatewaySetHeader(kv)
  \/ UserSetStatusCode(404)
  \/ \E v \in LateResults : FnReturn(v)
  \/ RunFnThen
  \/ RunFnCatch
  \/ RunEndThen
  \/ StreamData
  \/ StreamEnd

LateSpec == LateInit /\ [][LateNext]_vars

----------------------------------------------------------------------------
\* Gateway status against transport status: user code sets the Gateway
\* View's statusCode, a middleware chain gives a status to writeHead, and
\* requests are rejected, fail while read, or fail in the handler

StatusArgs == [handler : {"function", "application"}, options : {NoOptions}]
StatusResults == { JStr("plain"), Cyclic }

StatusInit ==
  /\ handleArgs \in StatusArgs
  /\ request \in [method : Methods, url : Urls, rawHeaders : { <<>> }]
  /\ Started

StatusNext ==
  \/ RejectRequest
  \/ AcceptRequest
  \/ \E e \in Errors : ErrorEvent(e)
  \/ EndEventFunction
  \/ EndEventExpress
  \/ UserSetStatusCode(404)
  \/ \E v \in StatusResults : FnReturn(v)
  \/ \E e \in Errors : FnThrow(e)
  \/ RunFnThen
  \/ RunFnCatch
  \/ RunEndThen
  \/ \E st \in HandlerStatuses : ResWriteHead(st)
  \/ \E c \in HandlerWrites : ResWrite(c)
  \/ \E c \in HandlerEnds : ResEnd(c)
  \/ \E e \in Errors : NextError(e)
  \/ HandlerReturn
  \/ RunComplete
  \/ RunShimCatch
  \/ ProcessExit

StatusSpec == StatusInit /\ [][StatusNext]_vars

----------------------------------------------------------------------------
\* Header forwarding of the shim: a middleware chain sets headers on the
\* synthetic response, among them one name in two casings and content-length
\* in three, and ends the response

XA == <<"X","-","A">>
ForwardSets ==
  { <<XA, <<"1">> >>, <<ToLowerCase(XA), <<"2">> >>, <<ToUpperCase(XA), <<"3">> >>,
    <<ContentLengthLower, <<"5">> >>, <<ContentLengthRemoved, <<"6">> >>,
    <<ToUpperCase(ContentLengthLower), <<"7">> >>,
    <<ContentTypeName, TextPlain>> }

ForwardInit ==
  /\ handleArgs = [handler |-> "application", options |-> NoOptions]
  /\ request = [method |-> "POST", url |-> "/call", rawHeaders |-> <<>>]
  /\ Started

ForwardNext ==
  \/ AcceptRequest
  \/ EndEventExpress
  \/ \E kv \in ForwardSets : ResSetHeader(kv)
  \/ \E c \in HandlerWrites : ResWrite(c)
  \/ \E c \in HandlerEnds : ResEnd(c)
  \/ HandlerReturn
  \/ RunComplete
  \/ RunShimCatch
  \/ RunEndThen

ForwardSpec == ForwardInit /\ [][ForwardNext]_vars

----------------------------------------------------------------------------
\* Lists handed to user code: a plain function handler asks for the values
\* of a request header, or for a list of the Gateway View's enumeration,
\* changes the list it got and reads the header again

AliasKeys == { XFoo, <<"x","_","f","o","o">>, FnHttpHPrefix \o XFoo, <<"Y">> }
AliasValues == { <<"p">>, <<"q">>, <<"r">> }

AliasInit ==
  /\ handleArgs = [handler |-> "function", options |-> NoOptions]
  /\ request \in [method : {"POST"}, url : {"/call"}, rawHeaders : ContextRawHeaders]
  /\ Started

AliasNext ==
  \/ AcceptRequest
  \/ EndEventFunction
  \/ \E k \in AliasKeys : UserGetAllHeaderValues(k)
  \/ \E n \in {XFoo} : UserGatewayHeaderList(n)
  \/ \E v \in AliasValues : UserUnshift(v)
  \/ \E k \in AliasKeys : UserGetHeader(k)

AliasSpec == AliasInit /\ [][AliasNext]_vars

----------------------------------------------------------------------------
\* Two connections in flight: functionHandler runs once per connection and
\* their data, end and completion events interleave

\* the accumulator kept in the closure of functionHandler, shared by every
\* connection (a variant the isolation property must tell apart)
InputHandlerOf_Shared(i) == 1

\* const inputHandler = getInputHandler(inputMode) inside functionHandler:
\* the accumulator the listeners of connection i push to and read
InputHandlerOf(i) == i

ConnWorld(i) == World(conns[i].resp, conns[i].ctx, {}, 0)

\* functionHandler for a POST /call
ConnAccept(i) ==
  /\ conns[i].phase = "new"
  /\ conns' = [conns EXCEPT ![i].phase = "reading", ![i].inputHandler = NewInputHandler]
  /\ UNCHANGED <<handleArgs, inputHandler, request, framework, phase, chunks, ctx, resp, log,
                 sends, micro, task, fn, pipe, shim, hist>>

\* req.on('data') of connection i
ConnData(i, chunk) ==
  /\ conns[i].phase = "reading"
  /\ Len(conns[i].received) < MaxChunks
  /\ conns' = [conns EXCEPT
                 ![InputHandlerOf(i)].acc = pushData(conns[i].inputHandler, @, chunk),
                 ![i].received = Append(@, chunk)]
  /\ UNCHANGED <<handleArgs, inputHandler, request, framework, phase, chunks, ctx, resp, log,
                 sends, micro, task, fn, pipe, shim, hist>>

\* req.on('end') of connection i: new Context(...), and for a middleware
\* chain handleExpressRequest: createExpressResponse()
ConnEnd(i) ==
  /\ conns[i].phase = "reading"
  /\ conns' = [conns EXCEPT
                 ![i].phase = "invoked",
                 ![i].ctx = NewCtx(processHeaders(request.rawHeaders),
                                   getBody(conns[i].inputHandler,
                                           conns[InputHandlerOf(i)].acc)),
                 ![i].res = createExpressResponse]
  /\ UNCHANGED <<handleArgs, inputHandler, request, framework, phase, chunks, ctx, resp, log,
                 sends, micro, task, fn, pipe, shim, hist>>

\* the plain function handler of connection i calls ctx.setResponseHeader
ConnSetResponseHeader(i, kv) ==
  /\ conns[i].phase = "invoked"
  /\ framework = "function"
  /\ conns[i].op = <<"none">>
  /\ conns' = [conns EXCEPT
                 ![i].ctx = setResponseHeader(ConnWorld(i), kv[1], kv[2]).ctx,
                 ![i].op = <<"set", kv[1], kv[2]>>]
  /\ UNCHANGED <<handleArgs, inputHandler, request, framework, phase, chunks, ctx, resp, log,
                 sends, micro, task, fn, pipe, shim, hist>>

\* ... or assigns ctx.responseContentType
ConnSetContentType(i, ct) ==
  /\ conns[i].phase = "invoked"
  /\ framework = "function"
  /\ conns[i].op = <<"none">>
  /\ conns' = [conns EXCEPT
                 ![i].ctx = setResponseContentType(ConnWorld(i), ct).ctx,
                 ![i].op = <<"contentType", ct>>]
  /\ UNCHANGED <<handleArgs, inputHandler, request, framework, phase, chunks, ctx, resp, log,
                 sends, micro, task, fn, pipe, shim, hist>>

\* the middleware chain of connection i calls res.write
ConnResWrite(i, chunk) ==
  /\ conns[i].phase = "invoked"
  /\ framework = "express"
  /\ conns[i].op = <<"none">>
  /\ conns' = [conns EXCEPT ![i].res = resWrite(@, chunk), ![i].op = <<"write", chunk>>]
  /\ UNCHANGED <<handleArgs, inputHandler, request, framework, phase, chunks, ctx, resp, log,
                 sends, micro, task, fn, pipe, shim, hist>>

\* the plain function of connection i returns "plain": sendResult, and the
\* resp.end() it queued
ConnReturn(i) ==
  /\ conns[i].phase = "invoked"
  /\ framework = "function"
  /\ LET w == sendResult(ConnWorld(i), JStr("plain"))
     IN conns' = [conns EXCEPT ![i].phase = "done", ![i].ctx = w.ctx,
                               ![i].resp = RespEndCall(w.resp)]
  /\ UNCHANGED <<handleArgs, inputHandler, request, framework, phase, chunks, ctx, resp, log,
                 sends, micro, task, fn, pipe, shim, hist>>

\* the chain of connection i calls res.end(): completeResponse,
\* sendExpressResponse, and the resp.end() sendResult queued if it got there
ConnResEnd(i) ==
  /\ conns[i].phase = "invoked"
  /\ framework = "express"
  /\ LET res == resEnd(conns[i].res, "")
         w == sendExpressResponse(ConnWorld(i), ExpressResponseOf(res), res._headers)
     IN conns' = [conns EXCEPT
                    ![i].phase = "done", ![i].res = res, ![i].ctx = w.ctx,
                    ![i].resp = IF Threw(w) THEN w.resp ELSE RespEndCall(w.resp)]
  /\ UNCHANGED <<handleArgs, inputHandler, request, framework, phase, chunks, ctx, resp, log,
                 sends, micro, task, fn, pipe, shim, hist>>

PairChunks == { <<"a">>, <<"b">> }

PairInit ==
  /\ handleArgs \in HandleArgs
  /\ request = [method |-> "POST", url |-> "/call", rawHeaders |-> <<>>]
  /\ Started

PairNext ==
  \E i \in Conns :
    \/ ConnAccept(i)
    \/ \E c \in PairChunks : ConnData(i, c)
    \/ ConnEnd(i)
    \/ ConnSetResponseHeader(i, <<XFoo, << <<"v">> >> >>)
    \/ ConnSetContentType(i, TextPlain)
    \/ ConnResWrite(i, "1")
    \/ ConnReturn(i)
    \/ ConnResEnd(i)

PairSpec == PairInit /\ [][PairNext]_vars

----------------------------------------------------------------------------
\* Properties

\* no code of the invocation is running, queued or waiting for the stream
Quiet == task = "none" /\ micro = <<>> /\ pipe.state # "open"

\* the values of a header of the transport response, <<>> when it has none
RespHeader(name) ==
  IF ToLowerCase(name) \in DOMAIN resp.headers
    THEN resp.headers[ToLowerCase(name)] ELSE <<>>

\* the JSON error envelope as it is on the wire
EnvelopeText(message, detail) ==
  "{\"message\":\"" \o message \o "\",\"detail\":\"" \o detail \o "\"}"

\* C1: once a result has reached sendResult and its encoding has not failed,
\* resp.end() is never called twice, and it has been called exactly once
\* when nothing of the invocation is left to run, whatever the kind of
\* result (the stream whose source ends included).
C1_EndExactlyOnce ==
  (hist.encoded /\ hist.encodeFailed = "none") =>
    /\ resp.endCalls <= 1
    /\ (Quiet /\ phase = "invoked") => resp.endCalls = 1

\* C2: when encoding the body failed after the status line was committed
\* (an exception in sendResult, or an error of the piped stream), the failure
\* is logged and resp.end() has been called once nothing is left to run.
C2_EncodeFailureStillEnds ==
  (hist.encodeFailed # "none" /\ Quiet /\ phase = "invoked") =>
    /\ resp.endCalls >= 1
    /\ log \cap {"Error writing response", "Function error", "Express error"} # {}

C4_EndWinsOverLateError ==
  (/\ framework = "express"
   /\ hist.errAfterEnd
   /\ hist.firstTrigger = "end"
   /\ ~JSONParseThrows(shim.value.body.s)
   /\ resp.status # 0) =>
    /\ resp.status = 200
    /\ RespHeader(FnHttpStatusName) = <<NumberToString(shim.value.status)>>

\* C5: a Shim Exchange settled by end() has its transport response ended
\* once nothing of the invocation is left to run.
C5_SettledExchangeEnds ==
  (/\ framework = "express"
   /\ phase = "invoked"
   /\ hist.firstTrigger = "end"
   /\ Quiet) => resp.endCalls >= 1

\* C6: a request that is not POST /call is answered with status 400 and the
\* fixed body, the response is ended, and user code is never invoked.
C6_BadRequestRejected ==
  ((request.method # "POST" \/ request.url # "/call") /\ phase # "new") =>
    /\ resp.status = 400
    /\ resp.body = <<"{\"message\":\"Invalid method\",\"detail\":\"Bad request\"}">>
    /\ resp.endCalls = 1
    /\ hist.userCalls = 0
    /\ phase = "rejected"

C6_Witness ==
  /\ request.method = "POST"
  /\ request.url = "/other"
  /\ phase = "rejected"
  /\ resp.status = 400

\* C7: when a plain function handler throws or its promise is rejected, the
\* transport response is the 502 envelope with the stringified error as
\* detail, and sendResult is never entered.
C7_FunctionFailureIs502 ==
  (framework = "function" /\ hist.failed # NoErr /\ micro = <<>>) =>
    /\ resp.status = 502
    /\ resp.body = <<EnvelopeText("Exception in function, consult logs for details",
                                  ErrorToString(hist.failed))>>
    /\ resp.endCalls = 1
    /\ ~hist.encoded
    /\ sends = 1

C7_Witness ==
  /\ framework = "function"
  /\ hist.failed = ErrorOf("boom")
  /\ fn.ops = 1
  /\ resp.status = 502
  /\ resp.body = <<"{\"message\":\"Exception in function, consult logs for details\",\"detail\":\"Error: boom\"}">>

\* C8: when a handler-chain error is the first trigger of the exchange, the
\* transport response is the 500 envelope whose detail is the stringified
\* error.
C8_ChainErrorIs500 ==
  (framework = "express" /\ hist.firstTrigger = "error") =>
    /\ resp.status = 500
    /\ resp.body = <<EnvelopeText("Internal Server Error",
                                  ErrorToString(hist.firstError))>>
    /\ RespHeader(ContentTypeName) = <<ApplicationJson>>
    /\ resp.endCalls = 1

C8_Witness ==
  /\ framework = "express"
  /\ hist.firstTrigger = "error"
  /\ hist.firstError = ErrorOf("boom")
  /\ shim.res._finished
  /\ Quiet
  /\ resp.body = <<"{\"message\":\"Internal Server Error\",\"detail\":\"Error: boom\"}">>

\* C9: when the chain calls next() without an error and without having ended
\* the synthetic response, the transport response carries gateway status 404
\* and the synthesized body naming method and path, and is ended once.
C9_NotFoundSynthesized ==
  (/\ framework = "express"
   /\ hist.firstTrigger = "next"
   /\ phase = "invoked"
   /\ Quiet) =>
    /\ RespHeader(FnHttpStatusName) = << <<"4","0","4">> >>
    /\ resp.body = <<Stringify(NotFoundBody(shim.req))>>
    /\ resp.endCalls = 1

\* C10: a read error of the transport before 'end' is answered with the 500
\* envelope whose detail is the stringified error, and user code is never
\* invoked.
C10_ReadErrorIs500 ==
  hist.readError # NoErr =>
    /\ resp.status = 500
    /\ resp.body = <<EnvelopeText("Request Error", ErrorToString(hist.readError))>>
    /\ resp.endCalls = 1
    /\ hist.userCalls = 0
    /\ phase = "readError"

C10_Witness ==
  /\ phase = "readError"
  /\ Len(chunks) = 1
  /\ hist.readError = ErrorOf("boom")
  /\ resp.body = <<"{\"message\":\"Request Error\",\"detail\":\"Error: boom\"}">>

\* C11: an exception the adapter raises while it encodes or post-processes
\* the result (JSON.stringify, JSON.parse, an error of the piped stream)
\* reaches the client: once nothing is left to run, the body of the
\* transport response is a JSON error envelope whose detail is the
\* stringified exception.
C11_ExceptionsSurface ==
  (hist.raised # NoErr /\ Quiet /\ phase = "invoked") =>
    /\ resp.endCalls >= 1
    /\ \E message \in {fnFunctionExceptionMessage, "Internal Server Error"} :
         resp.body = <<EnvelopeText(message, ErrorToString(hist.raised))>>

\* C12: every response whose status line is committed, whatever its status,
\* carries the headers Fn-Fdk-Version and Fn-Fdk-Runtime.
C12_IdentificationHeaders ==
  resp.status # 0 =>
    /\ RespHeader(FnFdkVersionName) = <<fdkVersion>>
    /\ RespHeader(FnFdkRuntimeName) = <<runtimeTag>>

\* C13: the Header Map decoded from a raw header list has no entry whose
\* name is a deny-set name (TE, Connection, Keep-Alive, Transfer-Encoding,
\* Trailer, Upgrade) in any casing.
C13_DenySetNeverDecoded ==
  phase = "decoded" =>
    \A k \in DOMAIN ctx.headers :
      ToLowerCase(k) \notin { ToLowerCase(h) : h \in skipHeaders }

\* a plain function's result has been through sendResult, which committed
\* the status line
Encoded == framework = "function" /\ hist.encoded /\ resp.status = 200

\* C14: when a plain function returns a non-null value and no content-type
\* was set, the transport response carries Content-Type: application/json.
C14_DefaultContentTypeHeader ==
  (Encoded /\ hist.result # JNull /\ hist.ctAtSend = <<>>) =>
    RespHeader(ContentTypeName) = <<ApplicationJson>>

\* C15: with no content-type set, a returned value that is not null, not a
\* result wrapper and has a JSON text is written as that JSON text; a string
\* is written quoted.
C15_DefaultBodyIsJson ==
  (/\ Encoded
   /\ hist.ctAtSend = <<>>
   /\ hist.result # JNull
   /\ ~IsFnResult(hist.result)
   /\ ~StringifyThrows(hist.result)) =>
    resp.body = <<Stringify(hist.result)>>

C15_Witness ==
  /\ Encoded
  /\ hist.ctAtSend = <<>>
  /\ hist.result = JStr("plain")
  /\ resp.body = <<"\"plain\"">>
  /\ resp.endCalls = 1
  /\ Quiet

\* s ends in p
EndsWith(s, p) ==
  Len(p) <= Len(s) /\ SubSeq(s, Len(s) - Len(p) + 1, Len(s)) = p

\* C16 as stated: with a content-type set, a returned string or buffer is
\* written as JSON text exactly when the content-type is application/json or
\* ends in +json, and verbatim for every other content-type.
C16_JsonOnlyWhenExact ==
  (Encoded /\ hist.ctAtSend # <<>> /\ hist.result.tag \in {"str", "buf"}) =>
    resp.body =
      IF hist.ctAtSend = ApplicationJson \/ EndsWith(hist.ctAtSend, PlusJson)
        THEN <<Stringify(hist.result)>>
        ELSE <<hist.result.s>>

\* C16 amended: with a content-type set, a returned string or buffer is
\* written as JSON text exactly when the content-type starts with
\* application/json or contains +json, and verbatim for every other
\* content-type.
C16_JsonWhenPrefixOrPlus ==
  (Encoded /\ hist.ctAtSend # <<>> /\ hist.result.tag \in {"str", "buf"}) =>
    resp.body =
      IF StartsWith(hist.ctAtSend, ApplicationJson) \/ Includes(hist.ctAtSend, PlusJson)
        THEN <<Stringify(hist.result)>>
        ELSE <<hist.result.s>>

C16_Witness ==
  /\ Encoded
  /\ hist.ctAtSend = ApplicationJsonUtf8
  /\ hist.result = JStr("plain")
  /\ resp.body = <<"\"plain\"">>
  /\ Quiet

\* C17: a raw or stream wrapper is written by its own writer, byte for byte,
\* also when JSON encoding is marked; a null result writes no body and
\* sendResult leaves the content-type as it found it.
C17_EncodeByTag ==
  Encoded =>
    /\ hist.result.tag = "raw" => resp.body = <<hist.result.s>>
    /\ hist.result.tag = "stream" =>
         /\ resp.body \in { <<>>, <<hist.result.s>> }
         /\ (pipe.state = "closed" /\ hist.encodeFailed = "none") =>
              resp.body = <<hist.result.s>>
    /\ hist.result = JNull =>
         /\ resp.body = <<>>
         /\ hist.ctAfterSend = hist.ctAtSend

C17_Witness ==
  /\ Encoded
  /\ hist.result = RawResultOf("raw")
  /\ hist.ctAtSend = <<>>
  /\ hist.ctAfterSend = ApplicationJson
  /\ resp.body = <<"raw">>
  /\ resp.endCalls = 1
  /\ Quiet

\* the content-type declared on the synthetic response, <<>> when none
DeclaredContentType ==
  IF ContentTypeLower \in DOMAIN shim.res._headers
    THEN shim.res._headers[ContentTypeLower] ELSE <<>>

\* C18: when a Shim Exchange settled by end() alone has buffered bytes and
\* its declared content-type does not contain "json", the bytes are written
\* to the transport unchanged, under the declared content-type or
\* application/octet-stream when none was declared.
C18_SniffDecidesEncoding ==
  (/\ framework = "express"
   /\ phase = "invoked"
   /\ hist.firstTrigger = "end"
   /\ ~hist.errAfterEnd
   /\ shim.value.body.s # ""
   /\ ~Includes(DeclaredContentType, <<"j","s","o","n">>)
   /\ Quiet) =>
    /\ ConcatText(resp.body) = shim.value.body.s
    /\ resp.endCalls >= 1
    /\ ctx.responseContentType = OrElse(DeclaredContentType, ApplicationOctetStream)

\* C19: the response header map never holds a gateway-prefixed
\* Content-Type header: a response content-type given through the Gateway
\* View or forwarded from the synthetic response lives in the content-type
\* slot only.
C19_ContentTypeOnlyInSlot ==
  /\ (FnHttpHPrefix \o ContentTypeName) \notin DOMAIN ctx.responseHeaders
  /\ ToLowerCase(FnHttpHPrefix \o ContentTypeName) \notin DOMAIN resp.headers

\* C20: when user code has set a gateway header k (not Content-Type) to the
\* values vs and has not added to it afterwards, the 200 response carries
\* the header named canonicalize("Fn-Http-H-" + k), spelled so, with exactly
\* vs, whatever was set for that name before.
C20_GatewayHeaderReplaces ==
  (Encoded /\ hist.lastSet # NoSet) =>
    /\ RespHeader(hist.lastSet.name) = hist.lastSet.values
    /\ resp.spelled[ToLowerCase(hist.lastSet.name)] = hist.lastSet.name

C20_Witness ==
  /\ Encoded
  /\ fn.ops = 2
  /\ hist.lastSet = [name |-> FnHttpHPrefix \o XFoo,
                     values |-> << <<"b","a","r">> >>,
                     over |-> << <<"b","a","z">>, <<"q","u","x">> >>]
  /\ resp.headers[ToLowerCase(FnHttpHPrefix \o XFoo)] = << <<"b","a","r">> >>
  /\ resp.spelled[ToLowerCase(FnHttpHPrefix \o XFoo)] =
       <<"F","n","-","H","t","t","p","-","H","-","X","-","F","o","o">>
  /\ Quiet

\* the gateway headers a Context holds: the part of the name after the
\* prefix, for every header whose name has the prefix and more
GatewayNames(c) ==
  { SubSeq(k, Len(FnHttpHPrefix) + 1, Len(k)) :
      k \in { h \in DOMAIN c.headers :
                StartsWith(h, FnHttpHPrefix) /\ Len(h) > Len(FnHttpHPrefix) } }

\* a middleware chain has been called with the synthetic request
ChainCalled == framework = "express" /\ phase = "invoked" /\ hist.userCalls = 1

\* C21: the synthetic request a middleware chain receives exposes the
\* gateway's request: every gateway header Fn-Http-H-<name> of the transport
\* request is readable as req.headers[<name>] under the unprefixed name in
\* lower case with its value (the first value, or the list of values), and
\* method and path are those the gateway reported.
C21_GatewayHeadersUnprefixed ==
  ChainCalled =>
    /\ \A n \in GatewayNames(ctx) :
         /\ ToLowerCase(n) \in DOMAIN shim.req.headers
         /\ shim.req.headers[ToLowerCase(n)] \in
              { ctx.headers[FnHttpHPrefix \o n], ctx.headers[FnHttpHPrefix \o n][1] }
    /\ (gatewayMethod(ctx) # <<>> => shim.req.method = gatewayMethod(ctx))
    /\ (gatewayRequestURL(ctx) # <<>> =>
          shim.req.path = Pathname(gatewayRequestURL(ctx)))

\* the accumulator the inputMode option of handle() names
SelectedHandler(options) ==
  CASE options.inputMode = "" -> "JSONInputHandler"
    [] options.inputMode = "json" -> "JSONInputHandler"
    [] options.inputMode = "string" -> "StringInputHandler"
    [] options.inputMode = "buffer" -> "BufferInputHandler"

\* C22: the inputMode option of handle() selects the Input Accumulator of
\* every invocation: the JSON accumulator when it is omitted (or 'json'),
\* the text accumulator for 'string', the raw accumulator for 'buffer', also
\* when the handler is an express application.
C22_InputModeSelects ==
  inputHandler # "none" => inputHandler = SelectedHandler(handleArgs.options)

\* the text the string accumulators hold once every chunk received was pushed
ReceivedChars ==
  BufferConcat([i \in 1..Len(hist.received) |-> BufferToString(hist.received[i])])
ReceivedText == ConcatText(ReceivedChars)

\* the texts of the bounded bodies that are JSON, with their values
IsJsonText(t) == t \in {"{\"a\":1}"}
JsonValueOf(t) == JObj(<< <<"a", JNum("1")>> >>)

\* C23: when the request has ended and the JSON accumulator was in use,
\* the body handed to user code is the parsed value if the accumulated text
\* is valid JSON and exactly the accumulated text otherwise; the finalize
\* raises nothing: user code is called and no error response is written.
C23_JsonFallsBackToText ==
  (phase = "invoked" /\ inputHandler = "JSONInputHandler") =>
    /\ ctx.body = IF IsJsonText(ReceivedText) THEN BodyValue(JsonValueOf(ReceivedText))
                  ELSE BodyText(ReceivedChars)
    /\ hist.userCalls = 1
    /\ resp.status = 0
    /\ log = {}

C23_Witness ==
  /\ phase = "invoked"
  /\ inputHandler = "JSONInputHandler"
  /\ hist.received = << <<"{\"a\"">>, <<LeadByte, ContinuationByte>> >>
  /\ ctx.body = BodyText(<<"{\"a\"", EAcute>>)
  /\ hist.userCalls = 1

\* C24: for the raw and the text accumulator the finalized body is the
\* concatenation of all bytes received, in arrival order, whatever the split
\* into chunks: the bytes themselves for the raw accumulator, their text for
\* the text accumulator; no chunk gives the empty body.
C24_BodyIsConcatenation ==
  phase = "invoked" =>
    /\ inputHandler = "BufferInputHandler" =>
         ctx.body = BodyBuffer(BufferConcat(hist.received))
    /\ inputHandler = "StringInputHandler" =>
         ctx.body = BodyText(BufferToString(BufferConcat(hist.received)))

\* two names that differ only in letter case or in '_' for '-'
FoldChar(c) == IF c = "_" THEN "-" ELSE LowerChar(c)
Similar(a, b) ==
  Len(a) = Len(b) /\ \A i \in 1..Len(a) : FoldChar(a[i]) = FoldChar(b[i])

\* the canonical name user code's setResponseHeader stored its values under
SetCalled == hist.call.op = "set" /\ Cardinality(DOMAIN ctx.responseHeaders) = 1
StoredName == CHOOSE k \in DOMAIN ctx.responseHeaders : TRUE

\* C25: canonicalization is idempotent, and names that differ only in
\* letter case or in '_' versus '-' have the same canonical name: after
\* ctx.setResponseHeader(n, ...) on a fresh Context the stored name k is its
\* own canonical name, and every name similar to n canonicalizes to k.
C25_CanonicalNameUnifies ==
  SetCalled =>
    /\ canonHeader(StoredName) = StoredName
    /\ \A m \in CanonNames : Similar(m, hist.call.key) => canonHeader(m) = StoredName

C25_Witness ==
  /\ SetCalled
  /\ hist.call.key = <<"a","_","B">>
  /\ Similar(<<"A","-","b">>, hist.call.key)
  /\ StoredName = <<"A","-","B">>

\* C26: empty segments of a name vanish: the canonical name user code's
\* setResponseHeader stores never starts or ends with '-' and never has two
\* adjacent '-'.
C26_NoStraySeparators ==
  SetCalled =>
    \/ StoredName = <<>>
    \/ /\ StoredName[1] # "-"
       /\ StoredName[Len(StoredName)] # "-"
       /\ \A i \in 1..(Len(StoredName) - 1) :
            ~(StoredName[i] = "-" /\ StoredName[i + 1] = "-")

\* the raw headers of the request: the name and value of the i-th, and the
\* values, in arrival order, of those whose canonical name is k
RawCount == Len(request.rawHeaders) \div 2
RawName(i) == request.rawHeaders[2 * i - 1]
RawValue(i) == request.rawHeaders[2 * i]
RECURSIVE ValuesNamedFrom(_, _)
ValuesNamedFrom(k, i) ==
  IF i > RawCount THEN <<>>
  ELSE (IF canonHeader(RawName(i)) = k THEN <<RawValue(i)>> ELSE <<>>)
         \o ValuesNamedFrom(k, i + 1)
ValuesNamed(k) == ValuesNamedFrom(k, 1)

\* C27: the decoded Header Map holds, for each canonical name of a raw
\* header that is not a deny-set name, exactly the values of all raw headers
\* with that canonical name, in arrival order; it holds no name that no raw
\* header has.
C27_AllValuesInOrder ==
  phase = "decoded" =>
    /\ \A i \in 1..RawCount :
         LET k == canonHeader(RawName(i))
         IN ToLowerCase(k) \notin { ToLowerCase(h) : h \in skipHeaders } =>
              k \in DOMAIN ctx.headers /\ ctx.headers[k] = ValuesNamed(k)
    /\ \A k \in DOMAIN ctx.headers : \E i \in 1..RawCount : canonHeader(RawName(i)) = k

C27_Witness ==
  /\ phase = "decoded"
  /\ request.rawHeaders = <<XFoo, <<"w">>, <<"x","-","f","o","o">>, <<"v">> >>
  /\ ctx.headers[XFoo] = << <<"w">>, <<"v">> >>

\* C28: on the Context, with names compared by canonical name,
\* setResponseHeader replaces the values of the entry, addResponseHeader
\* appends to them (creating the entry if absent) and leaves every other
\* entry alone, getResponseHeader returns the first value of the response
\* entry and getHeader the first value of the request header, or none when
\* the name is absent.
C28_SetReplacesAddAppends ==
  LET c == hist.call
      k == canonHeader(c.key)
      old == IF k \in DOMAIN c.before THEN c.before[k] ELSE <<>>
      others == DOMAIN c.before \ {k}
  IN /\ c.op \in {"set", "add"} =>
          /\ DOMAIN ctx.responseHeaders = DOMAIN c.before \cup {k}
          /\ \A j \in others : ctx.responseHeaders[j] = c.before[j]
          /\ ctx.responseHeaders[k] = IF c.op = "set" THEN c.values ELSE old \o c.values
     /\ c.op = "getResponseHeader" =>
          /\ ctx.responseHeaders = c.before
          /\ c.result = IF old = <<>> THEN NoValue ELSE Some(old[1])
     /\ c.op = "getHeader" =>
          c.result =
            IF \E i \in 1..RawCount : Similar(RawName(i), c.key)
              THEN Some(RawValue(CHOOSE i \in 1..RawCount :
                          /\ Similar(RawName(i), c.key)
                          /\ \A j \in 1..(i - 1) : ~Similar(RawName(j), c.key)))
              ELSE NoValue

C28_Witness ==
  /\ hist.call.op = "add"
  /\ hist.call.key = <<"x","_","f","o","o">>
  /\ hist.call.values = << <<"w">>, <<"v">> >>
  /\ hist.call.before = MapSet(EmptyMap, XFoo, << <<"v">> >>)
  /\ ctx.responseHeaders = MapSet(EmptyMap, XFoo, << <<"v">>, <<"w">>, <<"v">> >>)

\* C29: the header enumeration of the Gateway View holds exactly the
\* request headers whose canonical name starts with Fn-Http-H- and is longer
\* than it, each under the name after the prefix with all its values; the
\* bare prefix and headers without the prefix are left out.
C29_GatewayHeadersEnumerated ==
  hist.call.op = "gatewayHeaders" =>
    LET r == hist.call.result
        prefixed == { i \in 1..RawCount :
                        /\ StartsWith(canonHeader(RawName(i)), FnHttpHPrefix)
                        /\ Len(RawName(i)) > Len(FnHttpHPrefix) }
        Stripped(i) == SubSeq(canonHeader(RawName(i)), Len(FnHttpHPrefix) + 1,
                              Len(RawName(i)))
    IN /\ DOMAIN r = { Stripped(i) : i \in prefixed }
       /\ \A n \in DOMAIN r : r[n] = ValuesNamed(FnHttpHPrefix \o n)

C29_Witness ==
  /\ hist.call.op = "gatewayHeaders"
  /\ RawCount = 4
  /\ hist.call.result = MapSet(EmptyMap, XFoo, << <<"v">>, <<"w">> >>)

\* the body of the Context holds everything the transport delivered
WholeBody ==
  CASE ctx.body.kind = "buffer" -> ctx.body.bytes = BufferConcat(hist.received)
    [] ctx.body.kind = "string" -> ConcatText(ctx.body.text) = ReceivedText
    [] ctx.body.kind = "json" -> Stringify(ctx.body.value) = ReceivedText

ConnText(i) ==
  ConcatText(BufferConcat([j \in 1..Len(conns[i].received) |->
                             BufferToString(conns[i].received[j])]))

\* C31: with two connections in flight and their events interleaved, the
\* body of each invocation is made of the chunks of its own connection, in
\* order, and while its user code runs its response headers, content-type
\* and synthetic response body hold what its own user code put there and
\* nothing else; the response written carries a user header only if its
\* own user code set it.
C31_InvocationsIsolated ==
  \A i \in Conns :
    LET c == conns[i]
    IN /\ c.phase \in {"invoked", "done"} =>
            CASE c.ctx.body.kind = "buffer" -> c.ctx.body.bytes = BufferConcat(c.received)
              [] c.ctx.body.kind = "string" -> ConcatText(c.ctx.body.text) = ConnText(i)
              [] c.ctx.body.kind = "json" -> Stringify(c.ctx.body.value) = ConnText(i)
       /\ c.phase = "invoked" =>
            /\ c.ctx.responseHeaders =
                 IF c.op[1] = "set" THEN MapSet(EmptyMap, canonHeader(c.op[2]), c.op[3])
                 ELSE EmptyMap
            /\ c.ctx.responseContentType = IF c.op[1] = "contentType" THEN c.op[2] ELSE <<>>
            /\ c.res._body = IF c.op[1] = "write" THEN <<c.op[2]>> ELSE <<>>
            /\ c.resp = NewResp
       /\ c.phase = "done" =>
            /\ ToLowerCase(XFoo) \in DOMAIN c.resp.headers <=> c.op[1] = "set"
            /\ c.op[1] = "contentType" <=> c.ctx.responseContentType = TextPlain

C31_Witness ==
  /\ framework = "function"
  /\ conns[1].phase = "done"
  /\ conns[1].received = << <<"a">>, <<"b">> >>
  /\ conns[1].op[1] = "set"
  /\ conns[2].phase = "invoked"
  /\ conns[2].received = << <<"b">>, <<"a">> >>
  /\ conns[2].ctx.body = BodyText(<<"b", "a">>)
  /\ conns[2].op[1] = "none"
  /\ conns[2].ctx.responseHeaders = EmptyMap

\* the names the Result Encoder strips or stamps itself
EncoderNames == {ContentLengthLower, FnFdkVersionName, FnFdkRuntimeName}

\* C32: the Result Encoder applies the Response Intent headers first, then
\* strips the length header and stamps the two identification headers, and
\* then commits the status line: a value user code set under the name
\* Content-Length, Fn-Fdk-Version or Fn-Fdk-Runtime is on no response whose
\* status line is committed.
C32_EncoderNamesNotUsers ==
  resp.status # 0 =>
    \A n \in EncoderNames :
      ToLowerCase(n) \in DOMAIN resp.headers =>
        resp.headers[ToLowerCase(n)] # << <<"5">> >>

----------------------------------------------------------------------------
\* C33: once the status line is committed, a call user code makes on the
\* Context (setResponseHeader, addResponseHeader, the content-type
\* assignment, the Gateway View's setters) leaves the status line and the
\* headers of the transport response as they are
C33_CommittedHeadersFrozen ==
  [][(resp.status # 0 /\ fn'.ops = fn.ops + 1) =>
       /\ resp'.headers = resp.headers
       /\ resp'.spelled = resp.spelled
       /\ resp'.status = resp.status]_vars

\* user code set X-Foo through the Gateway View after the encoder committed
\* status 200, while the source stream is still piped: the header is in the
\* Response Intent and not on the transport response; so is the content-type
\* it assigned
C33_Witness ==
  /\ resp.status = 200
  /\ pipe.state = "open"
  /\ canonHeader(FnHttpHPrefix \o XFoo) \in DOMAIN ctx.responseHeaders
  /\ ToLowerCase(FnHttpHPrefix \o XFoo) \notin DOMAIN resp.headers
  /\ ctx.responseContentType = TextPlain
  /\ RespHeader(ContentTypeName) # <<TextPlain>>

----------------------------------------------------------------------------
\* C34: the Request Envelope's header map is never changed after it is
\* built, whatever user code does to the lists it was handed
\* (getAllHeaderValues, the Gateway View's enumeration): the map stays the
\* decoded raw headers and getHeader keeps returning the first value received
C34_EnvelopeNeverChanges ==
  phase = "invoked" =>
    /\ ctx.headers = processHeaders(request.rawHeaders)
    /\ hist.call.op = "getHeader" =>
         hist.call.result =
           FirstOf(processHeaders(request.rawHeaders), canonHeader(hist.call.key))

----------------------------------------------------------------------------
\* C35: for a Shim Exchange settled by end(), once everything has run the
\* transport response carries Fn-Http-Status with the decimal text of the
\* status the handler had set when it ended the response, 200 when it set
\* none (stated for the exchanges in which nothing failed after end())
C35_ShimStatusForwarded ==
  (/\ framework = "express" /\ phase = "invoked" /\ Quiet
   /\ hist.firstTrigger = "end" /\ ~hist.errAfterEnd) =>
    RespHeader(FnHttpStatusName) = <<NumberToString(shim.value.status)>>

----------------------------------------------------------------------------
\* C36: whenever the shim is used (an express application was detected or
\* options.framework is 'express'), whatever input mode is in effect, the
\* synthetic request delivers the raw bytes received, in one piece, and then
\* ends
C36_ShimBodyIsRawBytes ==
  (framework = "express" /\ phase = "invoked") =>
    /\ Len(shim.req.pushed) = 1
    /\ BufferConcat(shim.req.pushed) = BufferConcat(hist.received)
    /\ shim.req.ended

----------------------------------------------------------------------------
\* C37: what the handler does to the synthetic response after its first
\* end() does not change the response that is written: when the response of
\* an exchange settled by end() is on the transport, its gateway status is
\* the status at end(), it forwards exactly the headers set before end()
\* with their values at end(), and its body is the body at end()
C37_FrozenAfterEnd ==
  (/\ framework = "express" /\ phase = "invoked" /\ Quiet
   /\ hist.firstTrigger = "end" /\ ~hist.errAfterEnd /\ resp.status = 200) =>
    /\ RespHeader(FnHttpStatusName) = <<NumberToString(shim.value.status)>>
    /\ \A k \in DOMAIN shim.res._headers :
         k # ContentLengthLower =>
           RespHeader(FnHttpHPrefix \o k) =
             IF k \in DOMAIN shim.atEnd THEN <<shim.atEnd[k]>> ELSE <<>>
    /\ ConcatText(resp.body) = shim.value.body.s

----------------------------------------------------------------------------
\* the errors the adapter can put in the detail of an error envelope
KnownErrors ==
  Errors \cup { HeadersSentError, InvalidTokenError, CircularError, JsonSyntaxError,
                UndefinedHeadersError, NotAFunctionError }

\* the transport response is one of the adapter's own error envelopes
IsErrorEnvelope ==
  /\ RespHeader(ContentTypeName) = <<ApplicationJson>>
  /\ \/ /\ resp.status = 400
        /\ resp.body = <<EnvelopeText("Invalid method", fnFunctionBadRequestErrorMessage)>>
     \/ /\ resp.status = 500
        /\ \E e \in KnownErrors, m \in {"Request Error", "Internal Server Error"} :
             resp.body = <<EnvelopeText(m, ErrorToString(e))>>
     \/ /\ resp.status = 502
        /\ \E e \in KnownErrors :
             resp.body = <<EnvelopeText(fnFunctionExceptionMessage, ErrorToString(e))>>

\* C38: the transport status of a committed response is 200 whatever gateway
\* status user code or the shim chose; the gateway status travels only as
\* the Fn-Http-Status header; a transport status other than 200 is 400, 500
\* or 502 and comes with one of the adapter's own error envelopes
C38_TransportStatusIs200 ==
  /\ resp.status \in {0, 200, 400, 500, 502}
  /\ resp.status \notin {0, 200} => IsErrorEnvelope
  /\ (resp.status = 200 /\ RespHeader(FnHttpStatusName) # <<>>) =>
       /\ FnHttpStatusName \in DOMAIN ctx.responseHeaders
       /\ RespHeader(FnHttpStatusName) \in
            { <<NumberToString(n)>> : n \in {200} \cup HandlerStatuses \cup {404} }

\* user code chose gateway status 404 and the response is 200 with
\* Fn-Http-Status: 404
C38_Witness ==
  /\ framework = "function"
  /\ resp.status = 200
  /\ RespHeader(FnHttpStatusName) = <<NumberToString(404)>>
  /\ resp.endCalls = 1
  /\ Quiet

----------------------------------------------------------------------------
\* C39: when user code set a content-type that is not JSON and returned a
\* value that is neither a string, a buffer nor a wrapper (a structure, a
\* number), the encoder commits headers and status line, writes no body
\* byte and ends the response exactly once, raising nothing
C39_UnencodableWritesNothing ==
  (/\ Encoded
   /\ hist.ctAtSend = TextPlain
   /\ hist.result.tag \in {"obj", "num", "cyclic"}) =>
    /\ resp.body = <<>>
    /\ resp.endCalls = 1
    /\ hist.raised = NoErr
    /\ hist.encodeFailed = "none"
    /\ ~hist.uncaught
    /\ log = {}

C39_Witness ==
  /\ Encoded
  /\ hist.ctAtSend = TextPlain
  /\ hist.result = JNum("1")
  /\ RespHeader(FnFdkVersionName) = <<fdkVersion>>
  /\ resp.body = <<>>
  /\ resp.endCalls = 1
  /\ Quiet

----------------------------------------------------------------------------
\* C40: when completeResponse has run for a Shim Exchange settled by end(),
\* every header of the synthetic response except content-length is in the
\* Response Intent under canonicalize("Fn-Http-H-" + name) with its value;
\* the header the chain set last, in whatever casing, has the value of that
\* last call; and content-length is not forwarded, in any casing
C40_ShimHeadersForwarded ==
  (framework = "express" /\ hist.firstTrigger = "end" /\ ~hist.errAfterEnd /\ shim.handled) =>
    /\ \A k \in DOMAIN shim.res._headers :
         k # ContentLengthLower =>
           /\ canonHeader(FnHttpHPrefix \o k) \in DOMAIN ctx.responseHeaders
           /\ ctx.responseHeaders[canonHeader(FnHttpHPrefix \o k)] = <<shim.res._headers[k]>>
    /\ (hist.call.op = "res.setHeader" /\ ToLowerCase(hist.call.key) # ContentLengthLower) =>
         /\ canonHeader(FnHttpHPrefix \o hist.call.key) \in DOMAIN ctx.responseHeaders
         /\ ctx.responseHeaders[canonHeader(FnHttpHPrefix \o hist.call.key)] = hist.call.values
    /\ \A n \in DOMAIN ctx.responseHeaders :
         ToLowerCase(n) # ToLowerCase(FnHttpHPrefix \o ContentLengthLower)

\* the chain set content-length and then x-a to 2 and ended the response:
\* the Response Intent holds Fn-Http-H-X-A: 2
C40_Witness ==
  /\ framework = "express"
  /\ hist.firstTrigger = "end"
  /\ shim.handled
  /\ ContentLengthLower \in DOMAIN shim.res._headers
  /\ hist.call.op = "res.setHeader"
  /\ hist.call.key = ToLowerCase(XA)
  /\ ctx.responseHeaders[FnHttpHPrefix \o XA] = << <<"2">> >>

====
